---- MODULE Spec2Model ----
(***************************************************************************)
(* Vaulty secrets manager: the server's credential checks (server/auth.py),*)
(* its route handlers (server/api/routes) over the SQL tables               *)
(* (server/models.py), the audit-log pipeline (server/api/middleware.py,    *)
(* server/activity_logger.py, server/exposure_detector.py,                  *)
(* server/confidential_tracker.py) and the device registration protocol of  *)
(* the client library (client/register.py) and of the MCP server's register *)
(* tool (server/mcp/server.py).                                             *)
(*                                                                          *)
(* Strings are records [p, h, s, n, m]: s is the text, n the serial number  *)
(* of a value drawn by generate_token() (0 for a literal), h the number of  *)
(* times SHA-256 was applied to it (hash_token is injective and its result  *)
(* a 64-character lowercase hex digest), p a "Bearer " prefix and m the     *)
(* masking applied to it.  JSON documents are records [t, v] tagged with    *)
(* the Python type of the value.  Time stamps are kept as                   *)
(* set / not set where a row's meaning depends on them (authorized_at), as  *)
(* readings of clock for the secrets written by interleaved requests        *)
(* (created_at, updated_at), and left out otherwise.                        *)
(***************************************************************************)
EXTENDS Integers, Sequences, FiniteSets, TLC

VARIABLES projects, master_tokens, tokens, secrets, devices, nextId,
          handled, returned, pending, activity,
          client, calls, clock

db == <<projects, master_tokens, tokens, secrets, devices, nextId>>
\* handled: what call_next produced for the last request; returned: the body
\* the middleware sent to the caller; pending: the arguments of the logging
\* thread that has not run yet; activity: the Activity row written last.
logvars == <<handled, returned, pending, activity>>
\* client: the registration protocol of one device (client/register.py, the
\* register tool of mcp/server.py); calls: the requests whose handler has
\* read the database and not written yet; clock: datetime.utcnow().
procvars == <<client, calls, clock>>
vars == <<projects, master_tokens, tokens, secrets, devices, nextId,
          handled, returned, pending, activity, client, calls, clock>>

\* ------------------------------------------------------------------ bounds
\* Rows and tokens ever created: generate_id() and generate_token() draw
\* fresh random values, modelled by one serial counter.
MaxIds == 5
\* Requests that are served at the same time, each in its own session, and
\* the commits that write a secret (each reads datetime.utcnow() anew).
MaxCalls == 2
MaxClock == 3

\* ------------------------------------------------------------------ values
None == "None"

Txt(s) == [p |-> "", h |-> 0, s |-> s, n |-> 0, m |-> ""]

\* Token.generate_token / MasterToken.generate_token: 32 random characters of
\* A-Z a-z 0-9; the n-th draw is a value never drawn before.
generate_token(n) == [p |-> "", h |-> 0, s |-> "", n |-> n, m |-> ""]

\* hashlib.sha256(token.encode()).hexdigest()
hash_token(t) == [t EXCEPT !.h = @ + 1]

\* config.MASTER_TOKEN, the bootstrap credential of the environment.
MASTER_TOKEN == Txt("env-master-token")

\* Literal strings of 32 hex characters (device fingerprints) and of 64 hex
\* characters that are the digest of no fingerprint.
Hex32Literals == {"d1d1d1d1d1d1d1d1d1d1d1d1d1d1d1d1", "d2d2d2d2d2d2d2d2d2d2d2d2d2d2d2d2"}
Hex64Literals == {"abababababababababababababababababababababababababababababababab"}

\* len(token_str) == 64 and all(c in '0123456789abcdef' for c in token_str.lower())
IsHex64(t) == t.h >= 1 \/ (t.h = 0 /\ t.s \in Hex64Literals)

ProjectNames == {"P", "Q"}
SecretKeys == {"db_pass"}
SecretValues == {"hunter2", "correct-horse-battery"}
DeviceIds == {Txt(d) : d \in Hex32Literals}

\* Tags and auto-approval patterns are sequences of characters.
LowerMap == [A |-> "a", B |-> "b", C |-> "c", D |-> "d", E |-> "e", I |-> "i",
             L |-> "l", P |-> "p", T |-> "t", V |-> "v"]
\* str.lower()
lower(str) == [i \in 1..Len(str) |->
                 IF str[i] \in DOMAIN LowerMap THEN LowerMap[str[i]] ELSE str[i]]
\* needle in hay
contains(hay, needle) ==
    \E i \in 1..(Len(hay) - Len(needle) + 1) : SubSeq(hay, i, i + Len(needle) - 1) = needle
\* str.strip() for the blank character
RECURSIVE lstrip(_)
lstrip(str) == IF str # <<>> /\ Head(str) = " " THEN lstrip(Tail(str)) ELSE str
RECURSIVE rstrip(_)
rstrip(str) ==
    IF str # <<>> /\ str[Len(str)] = " " THEN rstrip(SubSeq(str, 1, Len(str) - 1)) ELSE str
strip(str) == lstrip(rstrip(str))
\* str.split(',')
RECURSIVE split_comma(_, _)
split_comma(str, cur) ==
    IF str = <<>> THEN <<cur>>
    ELSE IF Head(str) = "," THEN <<cur>> \o split_comma(Tail(str), <<>>)
    ELSE split_comma(Tail(str), Append(cur, Head(str)))

NoPattern == <<>>
PatternCsv == <<"d", "e", "v", ",", " ", "c", "i">>
PatternJson == <<"[", "\"", "T", "e", "s", "t", "\"", "]">>
PatternInputs == {NoPattern, PatternCsv, PatternJson}
\* json.loads on the pattern texts above: a list, or a JSONDecodeError.
json_loads(text) ==
    IF text = PatternJson
    THEN [ok |-> TRUE, is_list |-> TRUE, value |-> << <<"T", "e", "s", "t">> >>]
    ELSE [ok |-> FALSE, is_list |-> FALSE, value |-> <<>>]

TagLists == {<<>>, << <<"D", "e", "v", "-", "b", "o", "x">> >>,
             << <<"p", "r", "o", "d">>, <<"l", "a", "t", "e", "s", "t">> >>}
NoDeviceId == Txt("")
NoBearer == Txt("")

\* Bearer values a request may present.
Bearers ==
    {MASTER_TOKEN, Txt("not-a-credential")}
    \cup {Txt(x) : x \in Hex64Literals}
    \cup {generate_token(n) : n \in 1..MaxIds}
    \cup {hash_token(d) : d \in DeviceIds}

\* ------------------------------------------------------------------ lookups
\* db.query(MasterToken).filter(MasterToken.token_hash == token_hash).first()
MasterByHash(hh) == {m \in master_tokens : m.token_hash = hh}
TokenByHash(hh) == {t \in tokens : t.token_hash = hh}
\* db.query(Device).filter(device_id_hash == token_str.lower(), status == "authorized")
AuthorizedDeviceByToken(b) ==
    {d \in devices : d.device_id_hash = b /\ d.status = "authorized"}
\* db.query(Project).filter(Project.name == project_name).first()
ProjectByName(name) == {p \in projects : p.name = name}

\* ------------------------------------------------------------------ auth.py
\* verify_master_token: only tokens in the master_tokens table are accepted.
verify_master_token(b) ==
    IF MasterByHash(hash_token(b)) # {} THEN 200 ELSE 403

\* get_auth_context: master first, then (for a 64-hex bearer) an authorized
\* device, then a project token; otherwise 401.
get_auth_context(b) ==
    LET hh == hash_token(b)
        ds == AuthorizedDeviceByToken(b)
        ts == TokenByHash(hh)
    IN  IF MasterByHash(hh) # {}
        THEN [status |-> 200, is_master |-> TRUE, project_id |-> 0, token |-> 0]
        ELSE IF IsHex64(b) /\ ds # {}
        THEN [status |-> 200, is_master |-> FALSE,
              project_id |-> (CHOOSE d \in ds : TRUE).project_id, token |-> 0]
        ELSE IF ts = {}
        THEN [status |-> 401, is_master |-> FALSE, project_id |-> 0, token |-> 0]
        ELSE [status |-> 200, is_master |-> FALSE,
              project_id |-> (CHOOSE t \in ts : TRUE).project_id,
              token |-> (CHOOSE t \in ts : TRUE).id]

\* verify_project_access_by_id without the comparison of the credential's
\* project with the target (a project or device credential opens every project).
verify_project_access_by_id_unscoped(devs, project_id, b) ==
    LET hh == hash_token(b)
        ts == TokenByHash(hh)
    IN  IF MasterByHash(hh) # {} THEN 200
        ELSE IF IsHex64(b) THEN 200
        ELSE IF ts = {} THEN 401
        ELSE 200

\* verify_project_access_by_id over the devices table devs: the status it
\* ends with (200 = returns project_id).  In the 64-hex branch the return of
\* line 143 is reached whether or not an authorized device was found.
verify_project_access_by_id_on(devs, project_id, b) ==
    LET hh == hash_token(b)
        ds == {d \in devs : d.device_id_hash = b /\ d.status = "authorized"}
        ts == TokenByHash(hh)
    IN  IF MasterByHash(hh) # {} THEN 200
        ELSE IF IsHex64(b)
        THEN IF ds # {} /\ (CHOOSE d \in ds : TRUE).project_id # project_id
             THEN 403 ELSE 200
        ELSE IF ts = {} THEN 401
        ELSE IF (CHOOSE t \in ts : TRUE).project_id # project_id THEN 403
        ELSE 200

verify_project_access_by_id(project_id, b) ==
    verify_project_access_by_id_on(devices, project_id, b)

\* ------------------------------------------------------------------ encryption.py
\* config.MASTER_KEY: the key of this run of the server (the development
\* default), and a key an earlier run was started with.
MASTER_KEY == "default_key_32_bytes_long_for_dev_only!!"
EarlierKey == "key-of-an-earlier-run"
\* cryptography.fernet.InvalidToken
InvalidToken == "InvalidToken"

\* _fernet.encrypt with a key that is not the one _fernet.decrypt uses.
encrypt_data_other_key(data) == [fernet |-> data, key |-> EarlierKey]

\* _fernet.encrypt(data.encode('utf-8')): a Fernet token, the text sealed
\* and signed under the key derived from MASTER_KEY.
encrypt_data(data) == [fernet |-> data, key |-> MASTER_KEY]
\* _fernet.decrypt(encrypted_data).decode('utf-8'): the text of a token
\* signed under this run's key; InvalidToken is raised for any other.
decrypt_data(encrypted_data) ==
    IF encrypted_data.key = MASTER_KEY THEN encrypted_data.fernet ELSE InvalidToken

\* ------------------------------------------------------------------ str
\* Literal texts that contain '***', 'REDACTED' and '...'.
StarLiterals == {"***EXPOSED***", "***REDACTED***"}
RedactedLiterals == {"***REDACTED***"}
DotsLiterals == {"... (truncated)"}
IsLiteral(x) == x.h = 0 /\ x.n = 0 /\ x.m = ""

Max(a, b) == IF a >= b THEN a ELSE b

\* A text x is [p, h, s, n, m]: the literal s or the n-th drawn token,
\* digested h times, then masked as m says, then prefixed with p.
\* len() of the text before masking and prefixing: a digest has 64
\* characters, a drawn token 32, a literal its own length.
rawlen(x) == IF x.h >= 1 THEN 64 ELSE IF x.n > 0 THEN 32 ELSE Len(x.s)
\* len(x)
len(x) == Len(x.p) + (IF x.m = "stars" THEN 8 + Max(8, rawlen(x) - 8) ELSE rawlen(x))
\* x.count('*')
CountStars(x) ==
    IF x.m = "stars" THEN Max(8, rawlen(x) - 8)
    ELSE IF x.m = "allstars" THEN rawlen(x)
    ELSE IF IsLiteral(x) /\ x.s \in StarLiterals THEN 6
    ELSE 0
\* '***' in x
HasStars(x) == CountStars(x) >= 3
\* 'REDACTED' in x
HasRedacted(x) == IsLiteral(x) /\ x.s \in RedactedLiterals
\* '...' in x
HasDots(x) == IsLiteral(x) /\ x.s \in DotsLiterals

\* f"{start}{asterisks}{end}" with asterisks = '*' * max(8, len - 8) for more
\* than 8 characters, '*' * len otherwise.
MaskStars(x) == [x EXCEPT !.m = IF len(x) > 8 THEN "stars" ELSE "allstars"]
\* utils.mask_token: first 4, bullets, last 4 (all bullets up to 8 characters).
mask_token(x) == [x EXCEPT !.m = IF len(x) > 8 THEN "bullets" ELSE "allbullets"]
\* f"Bearer {token}" and auth_value[7:]
Bearer(x) == [x EXCEPT !.p = "Bearer "]
Unbearer(x) == [x EXCEPT !.p = ""]

EXPOSED == Txt("***EXPOSED***")
REDACTED == Txt("***REDACTED***")

\* ------------------------------------------------------------------ JSON
\* A JSON value is [t, v]: t the Python type, v a text, a record of JSON
\* values by key, or a sequence of JSON values.
Str(x) == [t |-> "str", v |-> x]
Dict(f) == [t |-> "dict", v |-> f]
List(q) == [t |-> "list", v |-> q]
JNone == [t |-> "None", v |-> <<>>]

\* The keys of the documents, in the order the dicts are built.
KeyOrder == <<"headers", "authorization", "content-type", "body", "key", "name", "value",
              "token", "detail", "data", "secrets">>
\* ['token', 'master_token', 'api_token', 'access_token', 'bearer_token', 'auth_token']
token_fields == {"token", "master_token", "api_token", "access_token", "bearer_token",
                 "auth_token"}
Has(d, k) == d.t = "dict" /\ k \in DOMAIN d.v

\* A path "body.secrets[0].value" split at '.': each part is a key and the
\* indices written after it.
Part(key) == [key |-> key, idx |-> <<>>]
At(key, i) == [key |-> key, idx |-> <<i>>]
\* f"{field_path}.{key}" and f"{field_path}[{i}]"
Dot(field_path, key) == Append(field_path, Part(key))
Sub(field_path, i) == [field_path EXCEPT ![Len(field_path)].idx = Append(@, i)]
\* The keys of the dict d in the order of d.items().
Keys(d) == SelectSeq(KeyOrder, LAMBDA k : k \in DOMAIN d.v)

\* The body of an error response: {"detail": ...}.
Detail(status) == Dict([detail |-> Str(Txt("Not authorized"))])

\* response_data of the middleware: the document {"headers", "body"} and its
\* "_confidential_fields" list, entries {"path", "type"}.
ResponseData(doc, confidential_fields) ==
    [doc |-> doc, confidential_fields |-> confidential_fields]

\* Before the first request: nothing handled, no logging thread, no row.
NotHandled == [status |-> 0, body |-> JNone]
NoPending == [live |-> FALSE, request_data |-> JNone, response |-> ResponseData(JNone, <<>>)]
NoActivity == [written |-> FALSE, request_data |-> JNone, response_data |-> JNone,
               exposed_confidential_data |-> FALSE]

\* ------------------------------------------------------------------ api/dependencies.py
ProjectId(name) ==
    IF ProjectByName(name) = {} THEN 0 ELSE (CHOOSE p \in ProjectByName(name) : TRUE).id

\* get_project_with_access: get_project_by_name (404), then
\* verify_project_access_by_id on the project's id.
get_project_with_access(name, b) ==
    IF ProjectByName(name) = {} THEN 404
    ELSE verify_project_access_by_id(ProjectId(name), b)

SecretByKey(project_id, key) ==
    {s \in secrets : s.project_id = project_id /\ s.key = key}

\* get_secret_by_key: access check, then the row of (project, key) or 404.
get_secret_by_key(key, name, b) ==
    IF get_project_with_access(name, b) # 200 THEN get_project_with_access(name, b)
    ELSE IF SecretByKey(ProjectId(name), key) = {} THEN 404 ELSE 200

DeviceById(device_id, project_id) ==
    {d \in devices : d.id = device_id /\ d.project_id = project_id}

\* get_device_by_id: access check, then the row of (id, project) or 404.
get_device_by_id(device_id, name, b) ==
    IF get_project_with_access(name, b) # 200 THEN get_project_with_access(name, b)
    ELSE IF DeviceById(device_id, ProjectId(name)) = {} THEN 404 ELSE 200

\* No registration protocol running; no request between its query and its
\* commit.
NoResult == [success |-> FALSE, status |-> None, wait_time_seconds |-> 0,
             note |-> None, error |-> None]
NoClient ==
    [pc |-> "none", impl |-> None, auth_token |-> Txt(""), poll_interval |-> 1,
     device_id_value |-> 0, elapsed_time |-> 0, polls |-> 0, observed |-> None,
     reject_called |-> FALSE, result |-> NoResult]
NoCall == [op |-> "none", project_id |-> 0, key |-> "", encrypted_value |-> None, existing |-> 0]
NoCalls == [slot \in 1..MaxCalls |-> NoCall]

\* ------------------------------------------------------------------ requests
\* The outcome of a request: its status code, its JSON body and the tables
\* as the handler and its dependencies leave them.  An HTTPException is
\* answered with {"detail": ...}; of a response model the fields that carry
\* text of the request, a secret or a credential are kept (ids and
\* timestamps are left out), for the routes the middleware section dispatches.
Resp(status) ==
    [status |-> status, body |-> IF status >= 400 THEN Detail(status) ELSE JNone,
     projects |-> projects, master_tokens |-> master_tokens,
     tokens |-> tokens, secrets |-> secrets, devices |-> devices, nextId |-> nextId]

\* db.commit() of the outcome r; a row is created only while the serial
\* counter is within its bound.
Commit(r) ==
    /\ r.nextId <= MaxIds + 1
    /\ projects' = r.projects
    /\ master_tokens' = r.master_tokens
    /\ tokens' = r.tokens
    /\ secrets' = r.secrets
    /\ devices' = r.devices
    /\ nextId' = r.nextId

\* A request served without the logging middleware in the picture.
Serve(r) == Commit(r) /\ UNCHANGED <<logvars, procvars>>

\* ------------------------------------------------------------------ main.py
\* init_master_token on an empty database: the bootstrap master credential.
InitMasterToken ==
    [id |-> 1, name |-> mask_token(MASTER_TOKEN), token_hash |-> hash_token(MASTER_TOKEN),
     is_init_token |-> 1]

Init ==
    /\ projects = {}
    /\ master_tokens = {InitMasterToken}
    /\ tokens = {}
    /\ secrets = {}
    /\ devices = {}
    /\ nextId = 2
    /\ handled = NotHandled
    /\ returned = JNone
    /\ pending = NoPending
    /\ activity = NoActivity
    /\ client = NoClient
    /\ calls = NoCalls
    /\ clock = 0

\* ------------------------------------------------------------------ routes/projects.py
create_project(b, name) ==
    IF verify_master_token(b) # 200 THEN Resp(403)
    ELSE IF ProjectByName(name) # {} THEN Resp(400)
    ELSE [Resp(201) EXCEPT
            !.projects = projects \cup
                {[id |-> nextId, name |-> name, auto_approval_tag_pattern |-> NoPattern]},
            !.nextId = nextId + 1,
            !.body = Dict([name |-> Str(Txt(name))])]

\* db.delete(project): the relationships cascade to tokens, secrets, devices.
delete_project(b, name) ==
    IF verify_master_token(b) # 200 THEN Resp(403)
    ELSE IF ProjectByName(name) = {} THEN Resp(404)
    ELSE [Resp(204) EXCEPT
            !.projects = projects \ ProjectByName(name),
            !.tokens = {t \in tokens : t.project_id # ProjectId(name)},
            !.secrets = {s \in secrets : s.project_id # ProjectId(name)},
            !.devices = {d \in devices : d.project_id # ProjectId(name)}]

\* update_project that puts the devices of the project up for approval again
\* under the new pattern.
update_project_reviewing(b, name, pattern) ==
    IF get_project_with_access(name, b) # 200
    THEN Resp(get_project_with_access(name, b))
    ELSE [Resp(200) EXCEPT
            !.projects = (projects \ ProjectByName(name)) \cup
                {[p EXCEPT !.auto_approval_tag_pattern = pattern] : p \in ProjectByName(name)},
            !.devices = {IF d.project_id = ProjectId(name)
                         THEN [d EXCEPT !.status = "pending", !.authorized_at = None,
                                        !.authorized_by = <<None, 0>>]
                         ELSE d : d \in devices}]

update_project(b, name, pattern) ==
    IF get_project_with_access(name, b) # 200
    THEN Resp(get_project_with_access(name, b))
    ELSE [Resp(200) EXCEPT
            !.projects = (projects \ ProjectByName(name)) \cup
                {[p EXCEPT !.auto_approval_tag_pattern = pattern] : p \in ProjectByName(name)}]

\* ------------------------------------------------------------------ routes/master_tokens.py
\* MasterTokenResponse / TokenResponse: the masked name and the raw token,
\* shown this one time.
TokenBody(token_str) ==
    Dict([name |-> Str(mask_token(token_str)), token |-> Str(token_str)])

\* The rows S in the order of their ids.
RECURSIVE ById(_)
ById(S) ==
    IF S = {} THEN <<>>
    ELSE LET x == CHOOSE y \in S : \A z \in S : y.id <= z.id
         IN  <<x>> \o ById(S \ {x})

\* TokenInfo / MasterTokenInfo: of the texts of a row, its name.
TokenInfoBody(row) == Dict([name |-> Str(row.name)])

create_master_token(b) ==
    IF verify_master_token(b) # 200 THEN Resp(403)
    ELSE [Resp(201) EXCEPT
            !.master_tokens = master_tokens \cup
                {[id |-> nextId, name |-> mask_token(generate_token(nextId)),
                  token_hash |-> hash_token(generate_token(nextId)),
                  is_init_token |-> IF Cardinality(master_tokens) = 0 THEN 1 ELSE 0]},
            !.nextId = nextId + 1,
            !.body = TokenBody(generate_token(nextId))]

list_master_tokens(b) ==
    LET rows == ById(master_tokens) IN
    IF verify_master_token(b) # 200 THEN Resp(403)
    ELSE [Resp(200) EXCEPT !.body = List([i \in 1..Len(rows) |-> TokenInfoBody(rows[i])])]

\* revoke_master_token without the comparison of the row with the caller's
\* own credential.
revoke_master_token_even_own(b, token_id) ==
    LET ms == {m \in master_tokens : m.id = token_id} IN
    IF verify_master_token(b) # 200 THEN Resp(403)
    ELSE IF ms = {} THEN Resp(404)
    ELSE [Resp(204) EXCEPT !.master_tokens = master_tokens \ ms]

revoke_master_token(b, token_id) ==
    LET ms == {m \in master_tokens : m.id = token_id} IN
    IF verify_master_token(b) # 200 THEN Resp(403)
    ELSE IF ms = {} THEN Resp(404)
    ELSE IF (CHOOSE m \in ms : TRUE).token_hash = hash_token(b) THEN Resp(400)
    ELSE [Resp(204) EXCEPT !.master_tokens = master_tokens \ ms]

rotate_master_token(b, token_id) ==
    LET ms == {m \in master_tokens : m.id = token_id} IN
    IF verify_master_token(b) # 200 THEN Resp(403)
    ELSE IF ms = {} THEN Resp(404)
    ELSE [Resp(200) EXCEPT
            !.master_tokens = (master_tokens \ ms) \cup
                {[id |-> nextId, name |-> mask_token(generate_token(nextId)),
                  token_hash |-> hash_token(generate_token(nextId)),
                  is_init_token |-> 0]},
            !.nextId = nextId + 1,
            !.body = TokenBody(generate_token(nextId))]

\* ------------------------------------------------------------------ routes/tokens.py
\* create_token with the token string itself as the name of the row.
create_token_named_raw(b, name) ==
    IF get_project_with_access(name, b) # 200
    THEN Resp(get_project_with_access(name, b))
    ELSE [Resp(201) EXCEPT
            !.tokens = tokens \cup
                {[id |-> nextId, project_id |-> ProjectId(name),
                  name |-> generate_token(nextId),
                  token_hash |-> hash_token(generate_token(nextId))]},
            !.nextId = nextId + 1,
            !.body = TokenBody(generate_token(nextId))]

create_token(b, name) ==
    IF get_project_with_access(name, b) # 200
    THEN Resp(get_project_with_access(name, b))
    ELSE [Resp(201) EXCEPT
            !.tokens = tokens \cup
                {[id |-> nextId, project_id |-> ProjectId(name),
                  name |-> mask_token(generate_token(nextId)),
                  token_hash |-> hash_token(generate_token(nextId))]},
            !.nextId = nextId + 1,
            !.body = TokenBody(generate_token(nextId))]

list_tokens(b, name) ==
    LET rows == ById({t \in tokens : t.project_id = ProjectId(name)}) IN
    IF get_project_with_access(name, b) # 200
    THEN Resp(get_project_with_access(name, b))
    ELSE [Resp(200) EXCEPT !.body = List([i \in 1..Len(rows) |-> TokenInfoBody(rows[i])])]

\* revoke_token declares a token id and a database session and no credential
\* dependency: the request is served whatever bearer it carries.
revoke_token(b, token_id) ==
    LET ts == {t \in tokens : t.id = token_id} IN
    IF ts = {} THEN Resp(404)
    ELSE [Resp(204) EXCEPT !.tokens = tokens \ ts]

\* ------------------------------------------------------------------ routes/secrets.py
\* Upsert by (project_id, key) on the outcome r: an existing row keeps its
\* id and gets the new ciphertext; otherwise a row is added.
PutSecret(r, project_id, key, value) ==
    LET ex == SecretByKey(project_id, key) IN
    IF ex # {}
    THEN [r EXCEPT !.secrets = (secrets \ ex) \cup
             {[x EXCEPT !.encrypted_value = encrypt_data(value)] : x \in ex}]
    ELSE [r EXCEPT !.secrets = secrets \cup
             {[id |-> nextId, project_id |-> project_id, key |-> key,
               encrypted_value |-> encrypt_data(value)]},
          !.nextId = nextId + 1]

\* SecretResponse
SecretBody(key) == Dict([key |-> Str(Txt(key))])
\* SecretValueResponse
SecretValueBody(key, value) == Dict([key |-> Str(Txt(key)), value |-> Str(Txt(value))])

create_secret(b, name, key, value) ==
    IF get_project_with_access(name, b) # 200
    THEN Resp(get_project_with_access(name, b))
    ELSE PutSecret([Resp(201) EXCEPT !.body = SecretBody(key)], ProjectId(name), key, value)

\* get_secret over the secrets table secs.  An exception of decrypt_data is
\* handled nowhere: the request ends 500.
get_secret_on(secs, b, name, key) ==
    LET rows == {x \in secs : x.project_id = ProjectId(name) /\ x.key = key}
        value == decrypt_data((CHOOSE x \in rows : TRUE).encrypted_value)
    IN  IF get_project_with_access(name, b) # 200
        THEN Resp(get_project_with_access(name, b))
        ELSE IF rows = {} THEN Resp(404)
        ELSE IF value = InvalidToken THEN Resp(500)
        ELSE [Resp(200) EXCEPT !.body = SecretValueBody(key, value)]

get_secret(b, name, key) == get_secret_on(secrets, b, name, key)

\* list_secrets with SecretValueResponse as its response model.
list_secrets_with_values(secs, b, name) ==
    LET rows == ById({x \in secs : x.project_id = ProjectId(name)}) IN
    IF get_project_with_access(name, b) # 200
    THEN Resp(get_project_with_access(name, b))
    ELSE [Resp(200) EXCEPT
            !.body = List([i \in 1..Len(rows) |->
                             SecretValueBody(rows[i].key,
                                             decrypt_data(rows[i].encrypted_value))])]

\* list_secrets over the secrets table secs: the rows of the project, each
\* serialised by the response model SecretResponse.
list_secrets_on(secs, b, name) ==
    LET rows == ById({x \in secs : x.project_id = ProjectId(name)}) IN
    IF get_project_with_access(name, b) # 200
    THEN Resp(get_project_with_access(name, b))
    ELSE [Resp(200) EXCEPT
            !.body = List([i \in 1..Len(rows) |-> SecretBody(rows[i].key)])]

list_secrets(b, name) == list_secrets_on(secrets, b, name)

\* delete_secret with a query that filters on the key alone.
delete_secret_any_project(b, name, key) ==
    IF get_secret_by_key(key, name, b) # 200
    THEN Resp(get_secret_by_key(key, name, b))
    ELSE [Resp(204) EXCEPT !.secrets = {x \in secrets : x.key # key}]

delete_secret(b, name, key) ==
    IF get_secret_by_key(key, name, b) # 200
    THEN Resp(get_secret_by_key(key, name, b))
    ELSE [Resp(204) EXCEPT
            !.secrets = secrets \ SecretByKey(ProjectId(name), key)]

\* Root-level endpoints: the project is the one get_auth_context binds the
\* bearer to; a master token is refused with 403.
RootStatus(b) ==
    IF get_auth_context(b).status # 200 THEN get_auth_context(b).status
    ELSE IF get_auth_context(b).is_master THEN 403
    ELSE IF get_auth_context(b).project_id = 0 THEN 401
    ELSE 200

create_secret_root(b, key, value) ==
    IF RootStatus(b) # 200 THEN Resp(RootStatus(b))
    ELSE PutSecret([Resp(201) EXCEPT !.body = SecretBody(key)],
                   get_auth_context(b).project_id, key, value)

get_secret_root(b, key) ==
    LET rows == SecretByKey(get_auth_context(b).project_id, key)
        value == decrypt_data((CHOOSE x \in rows : TRUE).encrypted_value)
    IN  IF RootStatus(b) # 200 THEN Resp(RootStatus(b))
        ELSE IF rows = {} THEN Resp(404)
        ELSE IF value = InvalidToken THEN Resp(500)
        ELSE [Resp(200) EXCEPT !.body = SecretValueBody(key, value)]

delete_secret_root(b, key) ==
    IF RootStatus(b) # 200 THEN Resp(RootStatus(b))
    ELSE IF SecretByKey(get_auth_context(b).project_id, key) = {}
    THEN Resp(404)
    ELSE [Resp(204) EXCEPT
            !.secrets = secrets \ SecretByKey(get_auth_context(b).project_id, key)]

\* ------------------------------------------------------------------ routes/devices.py
\* The patterns register_device derives from project.auto_approval_tag_pattern.
patterns_of(text) ==
    LET j == json_loads(text)
        parts == split_comma(text, <<>>)
        kept == SelectSeq([i \in 1..Len(parts) |-> strip(parts[i])], LAMBDA x : x # <<>>)
    IN  IF j.ok THEN (IF j.is_list THEN j.value ELSE <<text>>) ELSE kept

\* should_auto_approve: some tag contains some pattern, both lower-cased.
should_auto_approve(pattern_text, tags) ==
    /\ pattern_text # <<>>
    /\ tags # <<>>
    /\ \E i \in 1..Len(tags) : \E j \in 1..Len(patterns_of(pattern_text)) :
          contains(lower(tags[i]), lower(patterns_of(pattern_text)[j]))

\* Lines 61-68 (lower-casing, stripping and the 32-hex check of the supplied
\* device_id) stand inside the `if not device_data.device_id` block, after its
\* raise: the local name device_id is never assigned, and reading it at line
\* 72 raises UnboundLocalError, which the server answers with 500.
device_id_assigned == FALSE

\* register_device that moves a device registered elsewhere to the requested
\* project instead of refusing.
register_device_rebinding(seen, devs, name, device_id, tags) ==
    IF ProjectByName(name) = {} THEN [Resp(404) EXCEPT !.devices = devs]
    ELSE [Resp(201) EXCEPT
            !.devices = {IF d.device_id_hash = hash_token(device_id)
                         THEN [d EXCEPT !.project_id = ProjectId(name)] ELSE d : d \in devs}]

\* register_device: seen is the devices table when the handler looks the
\* device_id up (lines 75-77), devs the table when it commits its insert
\* (lines 141-154).  device_id_hash is a unique column (models.py:117): the
\* insert of a digest that is stored raises IntegrityError, answered 500.
register_device_at(seen, devs, name, device_id, tags) ==
    LET device_token == hash_token(device_id)
        existing == {d \in seen : d.device_id_hash = device_token}
        auto == should_auto_approve(
                    (CHOOSE p \in ProjectByName(name) : TRUE).auto_approval_tag_pattern, tags)
        On(status) == [Resp(status) EXCEPT !.devices = devs]
    IN
    IF name = "" THEN On(400)
    ELSE IF ProjectByName(name) = {} THEN On(404)
    ELSE IF device_id = NoDeviceId THEN On(400)
    ELSE IF ~device_id_assigned THEN On(500)
    ELSE IF existing # {}
    THEN (IF (CHOOSE d \in existing : TRUE).project_id # ProjectId(name)
          THEN On(400) ELSE On(201))
    ELSE IF \E d \in devs : d.device_id_hash = device_token THEN On(500)
    ELSE [Resp(201) EXCEPT
            !.devices = devs \cup
                {[id |-> nextId, project_id |-> ProjectId(name),
                  device_id_hash |-> device_token,
                  status |-> IF auto THEN "authorized" ELSE "pending",
                  device_info |-> [tags |-> tags],
                  authorized_at |-> IF auto THEN "set" ELSE None,
                  authorized_by |-> IF auto THEN <<"auto_approval_policy", 0>>
                                    ELSE <<None, 0>>,
                  rejected_at |-> None, rejected_by |-> None]},
            !.nextId = nextId + 1]

\* register_device over the devices table devs, with no other request between
\* its lookup and its insert.
register_device_on(devs, name, device_id, tags) ==
    register_device_at(devs, devs, name, device_id, tags)

register_device(name, device_id, tags) == register_device_on(devices, name, device_id, tags)

list_devices(b, name) ==
    Resp(get_project_with_access(name, b))

\* A status read that drops the row it reads when the device is still pending.
get_device_expiring(name, device_id) ==
    IF ProjectByName(name) = {} \/ DeviceById(device_id, ProjectId(name)) = {}
    THEN Resp(404)
    ELSE [Resp(200) EXCEPT
            !.devices = {d \in devices : d.id # device_id \/ d.status # "pending"}]

\* get_device (get_device_by_id_no_auth): the status read of the poll loop.
get_device(name, device_id) ==
    IF ProjectByName(name) = {} \/ DeviceById(device_id, ProjectId(name)) = {}
    THEN Resp(404) ELSE Resp(200)

\* authorize_device without the early return for a device that is already
\* authorized: the row is stamped again for the caller.
authorize_device_restamp(b, name, device_id) ==
    LET st == get_device_by_id(device_id, name, b)
        ds == DeviceById(device_id, ProjectId(name))
        auth == get_auth_context(b)
    IN
    IF st # 200 THEN Resp(st)
    ELSE IF auth.status # 200 THEN Resp(auth.status)
    ELSE [Resp(200) EXCEPT
            !.devices = (devices \ ds) \cup
                {[d EXCEPT
                    !.status = "authorized",
                    !.authorized_at = "set",
                    !.authorized_by =
                        IF auth.is_master
                        THEN <<"master_token",
                               (CHOOSE m \in MasterByHash(hash_token(b)) : TRUE).id>>
                        ELSE <<"project_token", auth.token>>,
                    !.rejected_at = None,
                    !.rejected_by = None] : d \in ds}]

\* authorize_device that writes the status and leaves the stamps alone.
authorize_device_status_only(b, name, device_id) ==
    LET st == get_device_by_id(device_id, name, b)
        ds == DeviceById(device_id, ProjectId(name))
    IN
    IF st # 200 THEN Resp(st)
    ELSE IF get_auth_context(b).status # 200 THEN Resp(get_auth_context(b).status)
    ELSE [Resp(200) EXCEPT
            !.devices = (devices \ ds) \cup {[d EXCEPT !.status = "authorized"] : d \in ds}]

authorize_device(b, name, device_id) ==
    LET st == get_device_by_id(device_id, name, b)
        ds == DeviceById(device_id, ProjectId(name))
        auth == get_auth_context(b)
    IN
    IF st # 200 THEN Resp(st)
    ELSE IF (CHOOSE d \in ds : TRUE).status = "authorized" THEN Resp(200)
    ELSE IF auth.status # 200 THEN Resp(auth.status)
    ELSE [Resp(200) EXCEPT
            !.devices = (devices \ ds) \cup
                {[d EXCEPT
                    !.status = "authorized",
                    !.authorized_at = "set",
                    !.authorized_by =
                        IF auth.is_master
                        THEN <<"master_token",
                               (CHOOSE m \in MasterByHash(hash_token(b)) : TRUE).id>>
                        ELSE <<"project_token", auth.token>>,
                    !.rejected_at = None,
                    !.rejected_by = None] : d \in ds}]

\* reject_device and delete_device: db.delete(device).
reject_device(b, name, device_id) ==
    IF get_device_by_id(device_id, name, b) # 200
    THEN Resp(get_device_by_id(device_id, name, b))
    ELSE [Resp(204) EXCEPT
            !.devices = devices \ DeviceById(device_id, ProjectId(name))]

delete_device(b, name, device_id) ==
    IF get_device_by_id(device_id, name, b) # 200
    THEN Resp(get_device_by_id(device_id, name, b))
    ELSE [Resp(204) EXCEPT
            !.devices = devices \ DeviceById(device_id, ProjectId(name))]

\* ------------------------------------------------------------------ exposure_detector.py
Finding(type, location, field_path) ==
    [type |-> type, location |-> location, field_path |-> field_path]

\* _get_secret_info: the value equals the decryption of some stored secret;
\* a row whose decryption raises is passed over (except Exception: continue).
get_secret_info(value) ==
    \E x \in secrets :
        /\ decrypt_data(x.encrypted_value) # InvalidToken
        /\ Txt(decrypt_data(x.encrypted_value)) = value

\* The rows _get_secret_info passes over while it looks for value: the rows,
\* in the order of db.query(Secret).all(), up to the first one that decrypts
\* to value, whose decryption raised.
get_secret_info_passed_over(value) ==
    {x \in secrets :
        /\ decrypt_data(x.encrypted_value) = InvalidToken
        /\ \A y \in secrets :
              y.id < x.id => \/ decrypt_data(y.encrypted_value) = InvalidToken
                             \/ Txt(decrypt_data(y.encrypted_value)) # value}

\* _get_token_info: the digest of the value is a stored master or project
\* credential, or the value is the MASTER_TOKEN of the environment.
get_token_info(value) ==
    \/ MasterByHash(hash_token(value)) # {}
    \/ TokenByHash(hash_token(value)) # {}
    \/ value = MASTER_TOKEN

\* _check_data_for_exposed_secrets: the findings it appends, in order.
RECURSIVE check_data_for_exposed_secrets(_, _, _)
check_data_for_exposed_secrets(data, location, field_path) ==
    IF data.t = "dict"
    THEN LET own ==
                 IF /\ Has(data, "value")
                    /\ data.v["value"].t = "str"
                    /\ ~HasStars(data.v["value"].v)
                    /\ ~HasRedacted(data.v["value"].v)
                    /\ len(data.v["value"].v) > 0
                    /\ get_secret_info(data.v["value"].v)
                 THEN <<Finding("secret", location, Dot(field_path, "value"))>>
                 ELSE <<>>
             keys == SelectSeq(Keys(data), LAMBDA k : k # "value")
             Of(k) ==
                 IF data.v[k].t \in {"dict", "list"}
                 THEN check_data_for_exposed_secrets(data.v[k], location, Dot(field_path, k))
                 ELSE IF /\ data.v[k].t = "str"
                         /\ len(data.v[k].v) > 10
                         /\ ~HasStars(data.v[k].v)
                         /\ ~HasRedacted(data.v[k].v)
                         /\ get_secret_info(data.v[k].v)
                 THEN <<Finding("secret", location, Dot(field_path, k))>>
                 ELSE <<>>
             F[i \in 0..Len(keys)] == IF i = 0 THEN <<>> ELSE F[i - 1] \o Of(keys[i])
         IN  own \o F[Len(keys)]
    ELSE IF data.t = "list"
    THEN LET G[i \in 0..Len(data.v)] ==
                 IF i = 0 THEN <<>>
                 ELSE G[i - 1] \o check_data_for_exposed_secrets(data.v[i], location,
                                                                 Sub(field_path, i - 1))
         IN  G[Len(data.v)]
    ELSE <<>>

\* An unmasked token: no '***', no '...', more than 8 characters, and known.
IsExposedToken(token) ==
    ~HasStars(token) /\ ~HasDots(token) /\ len(token) > 8 /\ get_token_info(token)

\* _check_data_for_exposed_tokens: the findings it appends, in order.
RECURSIVE check_data_for_exposed_tokens(_, _, _)
check_data_for_exposed_tokens(data, location, field_path) ==
    IF data.t = "dict"
    THEN LET fields == SelectSeq(Keys(data), LAMBDA k : k \in token_fields)
             T[i \in 0..Len(fields)] ==
                 IF i = 0 THEN <<>>
                 ELSE T[i - 1] \o
                      (IF data.v[fields[i]].t = "str" /\ IsExposedToken(data.v[fields[i]].v)
                       THEN <<Finding("token", location, Dot(field_path, fields[i]))>>
                       ELSE <<>>)
             hdr ==
                 IF /\ Has(data, "headers")
                    /\ Has(data.v["headers"], "authorization")
                    /\ data.v["headers"].v["authorization"].t = "str"
                    /\ data.v["headers"].v["authorization"].v.p = "Bearer "
                    /\ IsExposedToken(Unbearer(data.v["headers"].v["authorization"].v))
                 THEN <<Finding("token", location,
                                Dot(Dot(field_path, "headers"), "Authorization"))>>
                 ELSE <<>>
             keys == SelectSeq(Keys(data), LAMBDA k : k \notin token_fields \cup {"headers"})
             Of(k) ==
                 IF data.v[k].t \in {"dict", "list"}
                 THEN check_data_for_exposed_tokens(data.v[k], location, Dot(field_path, k))
                 ELSE IF /\ data.v[k].t = "str"
                         /\ len(data.v[k].v) > 10
                         /\ ~HasStars(data.v[k].v)
                         /\ ~HasDots(data.v[k].v)
                         /\ get_token_info(data.v[k].v)
                 THEN <<Finding("token", location, Dot(field_path, k))>>
                 ELSE <<>>
             F[i \in 0..Len(keys)] == IF i = 0 THEN <<>> ELSE F[i - 1] \o Of(keys[i])
         IN  T[Len(fields)] \o hdr \o F[Len(keys)]
    ELSE IF data.t = "list"
    THEN LET G[i \in 0..Len(data.v)] ==
                 IF i = 0 THEN <<>>
                 ELSE G[i - 1] \o check_data_for_exposed_tokens(data.v[i], location,
                                                                Sub(field_path, i - 1))
         IN  G[Len(data.v)]
    ELSE <<>>

\* check_for_exposed_data with every finding counted as exposure, those of
\* the request included.
check_for_exposed_data_any_finding(request_data, response_data) ==
    LET findings ==
            check_data_for_exposed_secrets(request_data, "request", <<Part("request")>>)
            \o check_data_for_exposed_secrets(response_data, "response", <<Part("response")>>)
            \o check_data_for_exposed_tokens(response_data, "response", <<Part("response")>>)
    IN  [has_exposure |-> Len(findings) > 0, findings |-> findings]

\* check_for_exposed_data: the request is scanned for secrets, the response
\* for secrets and tokens; has_exposure counts the findings of the response.
check_for_exposed_data(request_data, response_data) ==
    LET findings ==
            check_data_for_exposed_secrets(request_data, "request", <<Part("request")>>)
            \o check_data_for_exposed_secrets(response_data, "response", <<Part("response")>>)
            \o check_data_for_exposed_tokens(response_data, "response", <<Part("response")>>)
        response_findings == SelectSeq(findings, LAMBDA f : f.location = "response")
    IN  [has_exposure |-> Len(response_findings) > 0, findings |-> findings]

\* ------------------------------------------------------------------ confidential_tracker.py
\* ConfidentialTracker.mark_secret / mark_token: append to _confidential_fields.
mark_secret(response_data, field_path) ==
    [response_data EXCEPT !.confidential_fields = Append(@, [path |-> field_path,
                                                             type |-> "secret"])]
mark_token(response_data, field_path) ==
    [response_data EXCEPT !.confidential_fields = Append(@, [path |-> field_path,
                                                             type |-> "token"])]

\* The loop over path_parts of the two detections: each part is looked up as
\* a dict key, "secrets[0]" too; a part that is no key, or a current that is
\* no dict (current = None, or the TypeError caught by the except), ends the
\* look-up without a value.
Missing == [t |-> "missing", v |-> <<>>]
RECURSIVE navigate(_, _)
navigate(current, path_parts) ==
    IF path_parts = <<>> THEN current
    ELSE IF Head(path_parts).idx = <<>> /\ Has(current, Head(path_parts).key)
    THEN navigate(current.v[Head(path_parts).key], Tail(path_parts))
    ELSE Missing

\* current in ["***EXPOSED***", "***REDACTED***", "**** EXPOSED ****"] or
\* (current.count('*') > 3 and len(current) > 10)
is_already_redacted(current) ==
    \/ current \in {Txt("***EXPOSED***"), Txt("***REDACTED***"), Txt("**** EXPOSED ****")}
    \/ CountStars(current) > 3 /\ len(current) > 10

\* check_exposure_from_metadata: a finding for every annotated field that
\* the look-up reaches and that holds a string not already redacted.
check_exposure_from_metadata(response_data) ==
    LET fields == response_data.confidential_fields
        Of(field) ==
            LET current == navigate(response_data.doc, field.path) IN
            IF current.t = "str" /\ ~is_already_redacted(current.v)
            THEN <<Finding(field.type, "response", <<Part("response")>> \o field.path)>>
            ELSE <<>>
        F[i \in 0..Len(fields)] == IF i = 0 THEN <<>> ELSE F[i - 1] \o Of(fields[i])
    IN  [has_exposure |-> Len(F[Len(fields)]) > 0, findings |-> F[Len(fields)]]

\* ------------------------------------------------------------------ activity_logger.py
\* The for loop of redact_exposed_values over one path: "key[i]" parts index
\* the list under key, other parts are dict keys; the last part is replaced
\* by the sentinel; a part that does not resolve ends the loop.
RECURSIVE redact_at(_, _)
redact_at(current, path_parts) ==
    LET part == Head(path_parts)
        last == Len(path_parts) = 1
        index == Head(part.idx)
        items == current.v[part.key].v
    IN
    IF path_parts = <<>> THEN current
    ELSE IF part.idx # <<>>
    THEN IF /\ Has(current, part.key)
            /\ current.v[part.key].t = "list"
            /\ index < Len(items)
         THEN Dict([current.v EXCEPT ![part.key] =
                      List([items EXCEPT ![index + 1] =
                              IF last THEN Str(EXPOSED)
                              ELSE redact_at(items[index + 1], Tail(path_parts))])])
         ELSE current
    ELSE IF ~Has(current, part.key) THEN current
    ELSE IF last THEN Dict([current.v EXCEPT ![part.key] = Str(EXPOSED)])
    ELSE IF current.v[part.key].t \in {"dict", "list"}
    THEN Dict([current.v EXCEPT ![part.key] =
                 redact_at(current.v[part.key], Tail(path_parts))])
    ELSE current

\* json.loads(json.dumps(data)), then every confidential field redacted.
Redacted(data, confidential_fields) ==
    LET R[i \in 0..Len(confidential_fields)] ==
            IF i = 0 THEN data ELSE redact_at(R[i - 1], confidential_fields[i].path)
    IN  R[Len(confidential_fields)]

\* redact_exposed_values working on the object it is given instead of a copy.
redact_exposed_values_in_place(data, confidential_fields) ==
    [input |-> Redacted(data, confidential_fields),
     result |-> Redacted(data, confidential_fields)]

\* redact_exposed_values: result is the value returned, input the caller's
\* object after the call.  With no fields the object itself is returned;
\* otherwise the copy is redacted.
redact_exposed_values(data, confidential_fields) ==
    [input |-> data, result |-> Redacted(data, confidential_fields)]

\* _mask_tokens_in_dict
RECURSIVE mask_tokens_in_dict(_)
mask_tokens_in_dict(data) ==
    IF data.t = "dict"
    THEN Dict([key \in DOMAIN data.v |->
            LET value == data.v[key] IN
            IF key \in token_fields
            THEN (IF value.t = "str" /\ value.v # EXPOSED THEN Str(MaskStars(value.v))
                  ELSE value)
            ELSE IF key = "value" /\ value.t = "str" /\ len(value.v) > 0
            THEN (IF value.v = EXPOSED THEN value ELSE Str(REDACTED))
            ELSE IF value.t \in {"dict", "list"} THEN mask_tokens_in_dict(value)
            ELSE value])
    ELSE IF data.t = "list"
    THEN List([i \in 1..Len(data.v) |-> mask_tokens_in_dict(data.v[i])])
    ELSE data

\* The Authorization header of mask_tokens_in_data: "Bearer " and the token
\* masked, unless the token is empty or starts masked.
MaskedHeader(auth_value) ==
    IF /\ auth_value.p = "Bearer "
       /\ len(Unbearer(auth_value)) > 0
       /\ Unbearer(auth_value).m \notin {"stars", "allstars"}
    THEN Bearer(MaskStars(Unbearer(auth_value)))
    ELSE auth_value

\* mask_tokens_in_data: a deep copy with the Authorization header and the
\* token and value fields of a dict body masked.
mask_tokens_in_data(data) ==
    LET hd == data.v["headers"]
        d1 == IF /\ Has(data, "headers")
                 /\ Has(hd, "authorization")
                 /\ hd.v["authorization"].t = "str"
              THEN Dict([data.v EXCEPT !["headers"] =
                      Dict([hd.v EXCEPT !["authorization"] =
                              Str(MaskedHeader(hd.v["authorization"].v))])])
              ELSE data
    IN  IF data.t # "dict" THEN data
        ELSE IF Has(d1, "body") /\ d1.v["body"].t = "dict"
        THEN Dict([d1.v EXCEPT !["body"] = mask_tokens_in_dict(d1.v["body"])])
        ELSE d1

\* f.field_path.replace("response.", "").replace("request.", "")
StripLocation(field_path) ==
    IF Head(field_path) \in {Part("response"), Part("request")}
    THEN Tail(field_path) ELSE field_path

\* Lines 412-435: some annotated field is reached by the look-up and holds a
\* string other than the sentinel.
exposed_by_metadata(response_data) ==
    \E i \in 1..Len(response_data.confidential_fields) :
        LET current == navigate(response_data.doc, response_data.confidential_fields[i].path)
        IN  current.t = "str" /\ current.v # EXPOSED

\* _log_activity_sync_safe: the Activity row it adds.  The request is
\* masked; the response is flagged by its annotations or, when it has none,
\* by the scan of check_for_exposed_data, whose findings (all of them) become
\* the fields to redact; a flagged response is redacted.  Lists stay below
\* the 10 items above which the row keeps a summary.
log_activity_sync_safe(request_data, response_data) ==
    LET annotated == response_data.confidential_fields # <<>>
        exposure_report == check_for_exposed_data(request_data, response_data.doc)
        exposed_confidential_data ==
            IF annotated THEN exposed_by_metadata(response_data)
            ELSE exposure_report.has_exposure
        confidential_fields ==
            IF annotated THEN response_data.confidential_fields
            ELSE IF exposure_report.has_exposure
            THEN [i \in 1..Len(exposure_report.findings) |->
                    [path |-> StripLocation(exposure_report.findings[i].field_path),
                     type |-> exposure_report.findings[i].type]]
            ELSE <<>>
    IN  [written |-> TRUE,
         request_data |-> mask_tokens_in_data(request_data),
         response_data |->
            IF exposed_confidential_data /\ confidential_fields # <<>>
            THEN redact_exposed_values(response_data.doc, confidential_fields).result
            ELSE response_data.doc,
         exposed_confidential_data |-> exposed_confidential_data]

\* ------------------------------------------------------------------ the server
\* Row ids a request may name: those of the table, and one that is absent.
MasterIds == {m.id : m \in master_tokens} \cup {0}
TokenIds == {t.id : t \in tokens} \cup {0}
DeviceRowIds == {d.id : d \in devices} \cup {0}

CreateProject == \E b \in Bearers, name \in ProjectNames : Serve(create_project(b, name))
DeleteProject == \E b \in Bearers, name \in ProjectNames : Serve(delete_project(b, name))
UpdateProject ==
    \E b \in Bearers, name \in ProjectNames, pt \in PatternInputs :
        Serve(update_project(b, name, pt))
CreateMasterToken == \E b \in Bearers : Serve(create_master_token(b))
ListMasterTokens == \E b \in Bearers : Serve(list_master_tokens(b))
RevokeMasterToken == \E b \in Bearers, id \in MasterIds : Serve(revoke_master_token(b, id))
RotateMasterToken == \E b \in Bearers, id \in MasterIds : Serve(rotate_master_token(b, id))
CreateToken == \E b \in Bearers, name \in ProjectNames : Serve(create_token(b, name))
ListTokens == \E b \in Bearers, name \in ProjectNames : Serve(list_tokens(b, name))
RevokeToken == \E b \in Bearers, id \in TokenIds : Serve(revoke_token(b, id))
CreateSecret ==
    \E b \in Bearers, name \in ProjectNames, k \in SecretKeys, v \in SecretValues :
        Serve(create_secret(b, name, k, v))
GetSecret ==
    \E b \in Bearers, name \in ProjectNames, k \in SecretKeys : Serve(get_secret(b, name, k))
ListSecrets == \E b \in Bearers, name \in ProjectNames : Serve(list_secrets(b, name))
DeleteSecret ==
    \E b \in Bearers, name \in ProjectNames, k \in SecretKeys :
        Serve(delete_secret(b, name, k))
CreateSecretRoot ==
    \E b \in Bearers, k \in SecretKeys, v \in SecretValues :
        Serve(create_secret_root(b, k, v))
GetSecretRoot == \E b \in Bearers, k \in SecretKeys : Serve(get_secret_root(b, k))
DeleteSecretRoot == \E b \in Bearers, k \in SecretKeys : Serve(delete_secret_root(b, k))
RegisterDevice ==
    \E name \in ProjectNames \cup {""}, d \in DeviceIds \cup {NoDeviceId}, tags \in TagLists :
        Serve(register_device(name, d, tags))
ListDevices == \E b \in Bearers, name \in ProjectNames : Serve(list_devices(b, name))
GetDevice == \E name \in ProjectNames, id \in DeviceRowIds : Serve(get_device(name, id))
AuthorizeDevice ==
    \E b \in Bearers, name \in ProjectNames, id \in DeviceRowIds :
        Serve(authorize_device(b, name, id))
RejectDevice ==
    \E b \in Bearers, name \in ProjectNames, id \in DeviceRowIds :
        Serve(reject_device(b, name, id))
DeleteDevice ==
    \E b \in Bearers, name \in ProjectNames, id \in DeviceRowIds :
        Serve(delete_device(b, name, id))

Next ==
    \/ CreateProject \/ DeleteProject \/ UpdateProject
    \/ CreateMasterToken \/ ListMasterTokens \/ RevokeMasterToken \/ RotateMasterToken
    \/ CreateToken \/ ListTokens \/ RevokeToken
    \/ CreateSecret \/ GetSecret \/ ListSecrets \/ DeleteSecret
    \/ CreateSecretRoot \/ GetSecretRoot \/ DeleteSecretRoot
    \/ RegisterDevice \/ ListDevices \/ GetDevice
    \/ AuthorizeDevice \/ RejectDevice \/ DeleteDevice

Spec == Init /\ [][Next]_vars

\* ------------------------------------------------------------------ api/middleware.py
\* A request path is the sequence of its segments.
\* "/secrets/" in path
HasSecretsSegment(path) == \E i \in 1..(Len(path) - 1) : path[i] = "secrets"
\* path.endswith("/tokens")
EndsWithTokens(path) == path[Len(path)] = "tokens"

\* request_data: the headers as sent and the body parsed from JSON (None for
\* a method without body).
RequestData(b, body) ==
    Dict([headers |-> Dict([authorization |-> Str(Bearer(b))]), body |-> body])

\* response_data with the annotations of lines 142-184.
AnnotatedResponse(method, path, body) ==
    LET r0 == ResponseData(
                  Dict([headers |-> Dict("content-type" :> Str(Txt("application/json"))),
                        body |-> body]), <<>>)
        r1 == IF HasSecretsSegment(path) /\ Has(body, "value")
              THEN mark_secret(r0, <<Part("body"), Part("value")>>) ELSE r0
        r2 == IF EndsWithTokens(path) /\ method = "POST" /\ Has(body, "token")
              THEN mark_token(r1, <<Part("body"), Part("token")>>) ELSE r1
    IN  IF path = <<"api", "master-tokens">> /\ method = "POST" /\ Has(body, "token")
        THEN mark_token(r2, <<Part("body"), Part("token")>>) ELSE r2

\* StarletteResponse(content=response_body, ...): the bytes the handler
\* produced, not the response_data handed to the logger.
new_response(response_body, response_data) == response_body

\* dispatch: the handler runs (outcome r), the response is captured and
\* annotated, the logging thread is started with request_data and
\* response_data, and new_response goes to the caller.  One logging thread
\* is in flight at a time.
dispatch(method, path, b, body, r) ==
    /\ ~pending.live
    /\ Commit(r)
    /\ handled' = [status |-> r.status, body |-> r.body]
    /\ returned' = new_response(r.body, AnnotatedResponse(method, path, r.body))
    /\ pending' = [live |-> TRUE, request_data |-> RequestData(b, body),
                   response |-> AnnotatedResponse(method, path, r.body)]
    /\ UNCHANGED <<activity, procvars>>

\* The logging thread runs: db.add(activity); db.commit().
WriteActivity ==
    /\ pending.live
    /\ activity' = log_activity_sync_safe(pending.request_data, pending.response)
    /\ pending' = NoPending
    /\ UNCHANGED <<db, handled, returned, procvars>>

\* The requests sent through the middleware: one project, a key that is
\* spelled like a secret value, a token name that is spelled like one.
LogProject == "P"
LogKeys == {"db_pass", "hunter2"}
LogNames == {"ci", "hunter2"}
LogBearers == {MASTER_TOKEN, Txt("not-a-credential")}

PostProject ==
    \E b \in LogBearers :
        dispatch("POST", <<"api", "projects">>, b, Dict([name |-> Str(Txt(LogProject))]),
                 create_project(b, LogProject))
PostSecret ==
    \E b \in LogBearers, k \in LogKeys, v \in SecretValues :
        dispatch("POST", <<"api", "projects", LogProject, "secrets">>, b,
                 Dict([key |-> Str(Txt(k)), value |-> Str(Txt(v))]),
                 create_secret(b, LogProject, k, v))
GetSecretValue ==
    \E b \in LogBearers, k \in LogKeys :
        dispatch("GET", <<"api", "projects", LogProject, "secrets", k>>, b, JNone,
                 get_secret(b, LogProject, k))
GetSecrets ==
    \E b \in LogBearers :
        dispatch("GET", <<"api", "projects", LogProject, "secrets">>, b, JNone,
                 list_secrets(b, LogProject))
PostToken ==
    \E b \in LogBearers, n \in LogNames :
        dispatch("POST", <<"api", "projects", LogProject, "tokens">>, b,
                 Dict([name |-> Str(Txt(n))]), create_token(b, LogProject))
PostMasterToken ==
    \E b \in LogBearers :
        dispatch("POST", <<"api", "master-tokens">>, b, Dict([name |-> Str(Txt("ci"))]),
                 create_master_token(b))
PostRotate ==
    \E b \in LogBearers, id \in MasterIds :
        dispatch("POST", <<"api", "master-tokens", "{token_id}", "rotate">>, b, JNone,
                 rotate_master_token(b, id))

NextLog ==
    \/ PostProject \/ PostSecret \/ GetSecretValue \/ GetSecrets
    \/ PostToken \/ PostMasterToken \/ PostRotate
    \/ WriteActivity

SpecLog == Init /\ [][NextLog]_vars

\* ------------------------------------------------------------------ annotated responses
\* Detection and redaction on their own: a response_data is drawn, fields
\* of it are marked as the tracker marks them, and it is redacted.
MaxMarks == 2

RedactValues == {Txt("hunter2"), Txt("correct-horse-battery"), generate_token(2),
                 EXPOSED, REDACTED}
RedactBodies ==
    {Dict([key |-> Str(Txt("db_pass")), value |-> Str(x)]) : x \in RedactValues}
    \cup {Dict([data |-> Dict([value |-> Str(x)])]) : x \in RedactValues}
    \cup {Dict([secrets |-> List(<<Str(x), Str(y)>>)]) : x, y \in RedactValues}
    \cup {Dict([secrets |-> List(<<Dict([value |-> Str(x)])>>)]) : x \in RedactValues}
    \cup {Dict([token |-> Str(x)]) : x \in RedactValues}
    \cup {List(<<Dict([value |-> Str(x)])>>) : x \in RedactValues}
SecretPaths ==
    {<<Part("body"), Part("value")>>, <<Part("body"), Part("data"), Part("value")>>,
     <<Part("body"), Part("data")>>, <<Part("body"), At("secrets", 0)>>,
     <<Part("body"), At("secrets", 1)>>, <<Part("body"), At("secrets", 0), Part("value")>>,
     <<At("body", 0), Part("value")>>}
TokenPaths == {<<Part("body"), Part("token")>>}

InitRedact ==
    /\ projects = {}
    /\ master_tokens = {InitMasterToken}
    /\ tokens = {}
    /\ secrets = {}
    /\ devices = {}
    /\ nextId = 2
    /\ handled = NotHandled
    /\ returned = JNone
    /\ pending \in {[live |-> TRUE, request_data |-> JNone,
                     response |-> ResponseData(
                        Dict([headers |-> Dict("content-type" :> Str(Txt("application/json"))),
                              body |-> body]), <<>>)] : body \in RedactBodies}
    /\ activity = NoActivity
    /\ client = NoClient
    /\ calls = NoCalls
    /\ clock = 0

MarkSecret ==
    \E field_path \in SecretPaths :
        /\ Len(pending.response.confidential_fields) < MaxMarks
        /\ pending' = [pending EXCEPT !.response = mark_secret(@, field_path)]
        /\ UNCHANGED <<db, handled, returned, activity, procvars>>
MarkToken ==
    \E field_path \in TokenPaths :
        /\ Len(pending.response.confidential_fields) < MaxMarks
        /\ pending' = [pending EXCEPT !.response = mark_token(@, field_path)]
        /\ UNCHANGED <<db, handled, returned, activity, procvars>>
Redact ==
    /\ pending.response.confidential_fields # <<>>
    /\ pending' = [pending EXCEPT !.response.doc =
                      redact_exposed_values(@, pending.response.confidential_fields).result]
    /\ UNCHANGED <<db, handled, returned, activity, procvars>>

NextRedact == MarkSecret \/ MarkToken \/ Redact

SpecRedact == InitRedact /\ [][NextRedact]_vars

\* ------------------------------------------------------------------ the device registry
\* The server on a database that holds device rows: one project with one
\* project credential, and for each fingerprint no row or a row as the
\* devices table stores it (models.py Device): pending or authorized by the
\* auto-approval policy as the insert of register_device writes it,
\* authorized as authorize_device leaves it, or of status "rejected".
StoredProject == [id |-> 2, name |-> "P", auto_approval_tag_pattern |-> NoPattern]
StoredToken ==
    [id |-> 3, project_id |-> 2, name |-> mask_token(generate_token(3)),
     token_hash |-> hash_token(generate_token(3))]

DeviceRow(id, d, status, authorized_by, rejected_by) ==
    [id |-> id, project_id |-> StoredProject.id, device_id_hash |-> hash_token(d),
     status |-> status, device_info |-> [tags |-> <<>>],
     authorized_at |-> IF authorized_by[1] = None THEN None ELSE "set",
     authorized_by |-> authorized_by,
     rejected_at |-> IF rejected_by = None THEN None ELSE "set",
     rejected_by |-> rejected_by]

StoredRows(id, d) ==
    {DeviceRow(id, d, "pending", <<None, 0>>, None),
     DeviceRow(id, d, "authorized", <<"auto_approval_policy", 0>>, None),
     DeviceRow(id, d, "authorized", <<"master_token", 1>>, None),
     DeviceRow(id, d, "rejected", <<None, 0>>, "master_token:1")}

DeviceTables ==
    {r1 \cup r2 :
        r1 \in {{}} \cup {{x} : x \in StoredRows(4, Txt("d1d1d1d1d1d1d1d1d1d1d1d1d1d1d1d1"))},
        r2 \in {{}} \cup {{x} : x \in StoredRows(5, Txt("d2d2d2d2d2d2d2d2d2d2d2d2d2d2d2d2"))}}

InitDevices ==
    /\ projects = {StoredProject}
    /\ master_tokens = {InitMasterToken}
    /\ tokens = {StoredToken}
    /\ secrets = {}
    /\ devices \in DeviceTables
    /\ nextId = 6
    /\ handled = NotHandled
    /\ returned = JNone
    /\ pending = NoPending
    /\ activity = NoActivity
    /\ client = NoClient
    /\ calls = NoCalls
    /\ clock = 0

NextDevices ==
    \/ RegisterDevice \/ ListDevices \/ GetDevice
    \/ AuthorizeDevice \/ RejectDevice \/ DeleteDevice
    \/ RevokeToken \/ UpdateProject

SpecDevices == InitDevices /\ [][NextDevices]_vars

\* Every route of the server on a database that holds one project and, for
\* one fingerprint, no device row or a stored one.
InitStore ==
    /\ projects = {StoredProject}
    /\ master_tokens = {InitMasterToken}
    /\ tokens = {}
    /\ secrets = {}
    /\ devices \in {{}} \cup {{x} : x \in StoredRows(3, Txt("d1d1d1d1d1d1d1d1d1d1d1d1d1d1d1d1"))}
    /\ nextId = 4
    /\ handled = NotHandled
    /\ returned = JNone
    /\ pending = NoPending
    /\ activity = NoActivity
    /\ client = NoClient
    /\ calls = NoCalls
    /\ clock = 0

SpecStore == InitStore /\ [][Next]_vars

\* ------------------------------------------------------------------ client/register.py, mcp/server.py
\* max_wait_time in seconds (300 in both implementations), scaled down.
MaxWait == 3

\* The registration protocol as the client library ("client",
\* register_device of client/register.py) and as the register tool of the
\* MCP server ("mcp") run it.  pc is the position in the protocol, observed
\* the device status of the last answer (device_status / current_status),
\* polls the number of iterations of the loop, result the dictionary the
\* protocol returns.
Client(impl, auth_token, poll_interval) ==
    [NoClient EXCEPT !.pc = "idle", !.impl = impl, !.auth_token = auth_token,
                     !.poll_interval = poll_interval]

Done(c, result) == [c EXCEPT !.pc = "done", !.result = result]

\* The answer to POST /api/devices: 404, another failure, a device that is
\* authorized already, or a device to poll for.
registered(c, status_code, device_status, device_id_value) ==
    IF status_code = 404
    THEN Done(c, [NoResult EXCEPT !.error = "Project not found"])
    ELSE IF status_code \notin {200, 201}
    THEN Done(c, [NoResult EXCEPT !.error = IF c.impl = "client"
                                             THEN "Registration failed"
                                             ELSE "response_json"])
    ELSE IF device_status = "authorized"
    THEN Done([c EXCEPT !.observed = device_status, !.device_id_value = device_id_value],
              [NoResult EXCEPT !.success = TRUE, !.status = "authorized",
                               !.note = "auto-approved"])
    ELSE [c EXCEPT !.pc = "polling", !.observed = device_status,
                   !.device_id_value = device_id_value]

\* One iteration of the loop that ends on the first answer it does not read
\* as pending: success whatever the device status of a 200 answer.
polled_any_answer(c, status_code, current_status) ==
    LET c1 == [c EXCEPT !.elapsed_time = @ + c.poll_interval, !.polls = @ + 1,
                        !.observed = IF status_code = 200 THEN current_status
                                     ELSE IF status_code = 404 THEN "404" ELSE "error"]
    IN  IF status_code = 200
        THEN Done(c1, [NoResult EXCEPT !.success = TRUE, !.status = "authorized",
                                       !.wait_time_seconds = c1.elapsed_time])
        ELSE c1

\* One iteration of a loop whose elapsed_time counts iterations instead of
\* the seconds slept.
polled_counting_iterations(c, status_code, current_status) ==
    LET c1 == [c EXCEPT !.elapsed_time = @ + 1, !.polls = @ + 1,
                        !.observed = IF status_code = 200 THEN current_status
                                     ELSE IF status_code = 404 THEN "404" ELSE "error"]
    IN  IF status_code \in {200, 404}
        THEN Done(c1, [NoResult EXCEPT !.status = current_status,
                                       !.wait_time_seconds = c1.elapsed_time])
        ELSE c1

\* One iteration of the poll loop: sleep, add the interval to elapsed_time,
\* GET the device; status_code 0 is a request that raised.
polled(c, status_code, current_status) ==
    LET c1 == [c EXCEPT !.elapsed_time = @ + c.poll_interval, !.polls = @ + 1,
                        !.observed = IF status_code = 200 THEN current_status
                                     ELSE IF status_code = 404 THEN "404" ELSE "error"]
    IN  IF status_code = 200 /\ current_status = "authorized"
        THEN Done(c1, [NoResult EXCEPT !.success = TRUE, !.status = "authorized",
                                       !.wait_time_seconds = c1.elapsed_time,
                                       !.note = "ready to use"])
        ELSE IF status_code = 200 /\ current_status = "rejected"
        THEN Done(c1, [NoResult EXCEPT !.status = "rejected",
                                       !.wait_time_seconds = c1.elapsed_time,
                                       !.note = "rejected"])
        ELSE IF status_code = 404
        THEN Done(c1, [NoResult EXCEPT !.status = "rejected",
                                       !.wait_time_seconds = c1.elapsed_time,
                                       !.note = "removed"])
        ELSE c1

\* After the loop with final_status None, the answer to the reject call
\* left unread: the device is reported as still waiting.
timed_out_unread(c, reject_status) ==
    Done(c, [NoResult EXCEPT !.status = IF c.impl = "client" THEN "pending" ELSE "timeout",
                             !.wait_time_seconds = c.elapsed_time,
                             !.note = "manual action"])

\* After the loop with final_status None: reject_status is the answer to the
\* PATCH .../reject sent when an auth_token is held (0: no call was made).
timed_out(c, reject_status) ==
    IF c.auth_token # NoBearer /\ reject_status = 204
    THEN Done(c, [NoResult EXCEPT !.status = "rejected",
                                  !.wait_time_seconds = c.elapsed_time,
                                  !.note = "try again"])
    ELSE IF c.impl = "client"
    THEN Done(c, [NoResult EXCEPT !.status = "pending",
                                  !.wait_time_seconds = c.elapsed_time,
                                  !.note = "manual action"])
    ELSE Done(c, [NoResult EXCEPT !.status = "timeout",
                                  !.wait_time_seconds = c.elapsed_time,
                                  !.note = IF c.auth_token # NoBearer
                                           THEN "may have been removed"
                                           ELSE "manual action"])

\* The device the protocol registers, its project, and what it may run with.
ClientDevice == Txt("d1d1d1d1d1d1d1d1d1d1d1d1d1d1d1d1")
ClientProject == "P"
AuthTokens == {NoBearer, MASTER_TOKEN, generate_token(3), Txt("not-a-credential")}
PollIntervals == {1, 2}
Clients ==
    {Client("client", t, i) : t \in AuthTokens, i \in PollIntervals}
    \cup {Client("mcp", t, 1) : t \in AuthTokens}

\* The protocol from its start, and the protocol at the head of its poll
\* loop with the row the registration answered with: pending, or a row of
\* status "rejected" that was stored for the device_id.
InitPoll ==
    /\ projects = {StoredProject}
    /\ master_tokens = {InitMasterToken}
    /\ tokens = {StoredToken}
    /\ secrets = {}
    /\ nextId = 6
    /\ handled = NotHandled
    /\ returned = JNone
    /\ pending = NoPending
    /\ activity = NoActivity
    /\ calls = NoCalls
    /\ clock = 0
    /\ \/ /\ devices = {}
          /\ client \in Clients
       \/ \E row \in {DeviceRow(4, ClientDevice, "pending", <<None, 0>>, None),
                      DeviceRow(4, ClientDevice, "rejected", <<None, 0>>, "master_token:1")} :
             /\ devices = {row}
             /\ client \in {[c EXCEPT !.pc = "polling", !.observed = row.status,
                                     !.device_id_value = row.id] : c \in Clients}

\* POST /api/devices and the reading of its answer.
ClientRegister ==
    \E tags \in TagLists :
        LET r == register_device(ClientProject, ClientDevice, tags)
            rows == {x \in r.devices : x.device_id_hash = hash_token(ClientDevice)}
            row == IF r.status \in {200, 201} /\ rows # {}
                   THEN CHOOSE x \in rows : TRUE
                   ELSE [id |-> 0, status |-> None]
        IN  /\ client.pc = "idle"
            /\ Commit(r)
            /\ client' = registered(client, r.status, row.status, row.id)
            /\ UNCHANGED <<logvars, calls, clock>>

\* The status request of the loop: requests.get(url, timeout=10) with no
\* headers in the client, call_api(..., token=None) in the MCP tool.
status_request(c) ==
    [method |-> "GET", device_id |-> c.device_id_value, authorization |-> NoBearer]

\* The credential rows whose last_used the service of a request with the
\* Authorization value b writes: none in get_device_by_id_no_auth, which
\* takes no credentials; in the logging thread, get_token_type stamps the
\* master or project credential the bearer matches ('none' without header).
last_used_written(b) ==
    IF b = NoBearer THEN {}
    ELSE IF MasterByHash(hash_token(b)) # {} THEN MasterByHash(hash_token(b))
    ELSE TokenByHash(hash_token(b))

\* One iteration of the loop: the GET is answered by get_device, or raises.
ClientPoll ==
    \E answered \in BOOLEAN :
        LET r == get_device(ClientProject, client.device_id_value)
            rows == DeviceById(client.device_id_value, ProjectId(ClientProject))
            current_status == IF r.status = 200 THEN (CHOOSE x \in rows : TRUE).status
                              ELSE None
        IN  /\ client.pc = "polling"
            /\ client.elapsed_time < MaxWait
            /\ client' = IF answered THEN polled(client, r.status, current_status)
                         ELSE polled(client, 0, None)
            /\ IF answered THEN Commit(r) ELSE UNCHANGED db
            /\ UNCHANGED <<logvars, calls, clock>>

\* The loop ended with final_status None.
ClientTimeout ==
    /\ client.pc = "polling"
    /\ client.elapsed_time >= MaxWait
    /\ IF client.auth_token # NoBearer
       THEN LET r == reject_device(client.auth_token, ClientProject, client.device_id_value)
            IN  /\ Commit(r)
                /\ client' = timed_out([client EXCEPT !.reject_called = TRUE], r.status)
       ELSE /\ client' = timed_out(client, 0)
            /\ UNCHANGED db
    /\ UNCHANGED <<logvars, calls, clock>>

NextPoll ==
    \/ ClientRegister \/ ClientPoll \/ ClientTimeout
    \/ AuthorizeDevice \/ RejectDevice \/ DeleteDevice \/ RevokeToken

SpecPoll == InitPoll /\ [][NextPoll]_vars

\* The protocol is one sequential run of the client (or of the MCP tool
\* call): time.sleep returns, every request is sent with a timeout and its
\* exceptions are caught, so the step the run stands at is eventually taken.
ClientStep == ClientRegister \/ ClientPoll \/ ClientTimeout

SpecPollFair == SpecPoll /\ WF_vars(ClientStep)

\* ------------------------------------------------------------------ failures of the audit logging
\* Where the logging of a request may fail: "mcp_arguments", the
\* X-MCP-Arguments header of a direct MCP call is no JSON and json.loads
\* raises while the request metadata is captured (middleware.py:43-50);
\* "thread_start", threading.Thread.start() raises when the log write is
\* scheduled (activity_logger.py:570-575); "write", the logging thread
\* raises, which it catches itself (activity_logger.py:525-547).
Faults == {"none", "mcp_arguments", "thread_start", "write"}

\* The answer of the server to an exception that leaves dispatch.
InternalServerError == Str(Txt("Internal Server Error"))

\* What the caller of a request gets from the middleware, and whether the
\* handler ran, when the handler's outcome is r and the logging fails at
\* fault.  Neither raise is inside a try block of dispatch: the first
\* happens before call_next, the second after it.
served(fault, r) ==
    IF fault = "mcp_arguments"
    THEN [status |-> 500, body |-> InternalServerError, committed |-> FALSE]
    ELSE IF fault = "thread_start"
    THEN [status |-> 500, body |-> InternalServerError, committed |-> TRUE]
    ELSE [status |-> r.status, body |-> r.body, committed |-> TRUE]

\* dispatch with the logging failing at fault.
dispatch_with(fault, method, path, b, body, r) ==
    IF fault = "mcp_arguments"
    THEN /\ ~pending.live
         /\ handled' = NotHandled
         /\ returned' = served(fault, r).body
         /\ UNCHANGED <<db, pending, activity, procvars>>
    ELSE IF fault = "thread_start"
    THEN /\ ~pending.live
         /\ Commit(r)
         /\ handled' = [status |-> r.status, body |-> r.body]
         /\ returned' = served(fault, r).body
         /\ UNCHANGED <<pending, activity, procvars>>
    ELSE dispatch(method, path, b, body, r)

\* The logging thread raises before its commit: the exception is printed and
\* no Activity row is written.
WriteActivityFails ==
    /\ pending.live
    /\ pending' = NoPending
    /\ UNCHANGED <<db, handled, returned, activity, procvars>>

\* The requests sent through the middleware with the logging failing.
PostProjectFaulty ==
    \E fault \in Faults \ {"write"}, b \in LogBearers :
        dispatch_with(fault, "POST", <<"api", "projects">>, b,
                      Dict([name |-> Str(Txt(LogProject))]), create_project(b, LogProject))
PostSecretFaulty ==
    \E fault \in Faults \ {"write"}, b \in LogBearers, v \in SecretValues :
        dispatch_with(fault, "POST", <<"api", "projects", LogProject, "secrets">>, b,
                      Dict([key |-> Str(Txt("db_pass")), value |-> Str(Txt(v))]),
                      create_secret(b, LogProject, "db_pass", v))
GetSecretValueFaulty ==
    \E fault \in Faults \ {"write"}, b \in LogBearers :
        dispatch_with(fault, "GET", <<"api", "projects", LogProject, "secrets", "db_pass">>,
                      b, JNone, get_secret(b, LogProject, "db_pass"))
DeleteSecretFaulty ==
    \E fault \in Faults \ {"write"}, b \in LogBearers :
        dispatch_with(fault, "DELETE", <<"api", "projects", LogProject, "secrets", "db_pass">>,
                      b, JNone, delete_secret(b, LogProject, "db_pass"))

NextFaults ==
    \/ PostProjectFaulty \/ PostSecretFaulty \/ GetSecretValueFaulty \/ DeleteSecretFaulty
    \/ WriteActivity \/ WriteActivityFails

SpecFaults == Init /\ [][NextFaults]_vars

\* ------------------------------------------------------------------ device requests in the audit log
\* Reject and authorize sent through the middleware, on a database that
\* holds device rows.
AuditBearers == {MASTER_TOKEN, generate_token(3), Txt("not-a-credential")}

PatchReject ==
    \E b \in AuditBearers, id \in DeviceRowIds :
        dispatch("PATCH", <<"api", "projects", LogProject, "devices", "{device_id}", "reject">>,
                 b, JNone, reject_device(b, LogProject, id))
PatchAuthorize ==
    \E b \in AuditBearers, id \in DeviceRowIds :
        dispatch("PATCH",
                 <<"api", "projects", LogProject, "devices", "{device_id}", "authorize">>,
                 b, JNone, authorize_device(b, LogProject, id))

NextAudit == PatchReject \/ PatchAuthorize \/ WriteActivity

SpecAudit == InitDevices /\ [][NextAudit]_vars

\* ------------------------------------------------------------------ concurrent requests on secrets
\* create_secret and delete_secret in two steps, as requests served at the
\* same time interleave: the dependencies and the query for the row (the
\* call remembers the id it found, 0 for none), then the commit.
\* Lines 18-32: access check, encryption, db.query(Secret)...first().
create_secret_query(b, name, key, value) ==
    [op |-> IF get_project_with_access(name, b) = 200 THEN "put" ELSE "none",
     project_id |-> ProjectId(name), key |-> key,
     encrypted_value |-> encrypt_data(value),
     existing |-> IF SecretByKey(ProjectId(name), key) = {} THEN 0
                  ELSE (CHOOSE x \in SecretByKey(ProjectId(name), key) : TRUE).id]

\* The commit of create_secret with no unique constraint on (project_id, key).
create_secret_commit_unconstrained(c, now) ==
    IF c.existing # 0
    THEN [status |-> IF \E x \in secrets : x.id = c.existing THEN 201 ELSE 500,
          secrets |-> {IF x.id = c.existing
                       THEN [x EXCEPT !.encrypted_value = c.encrypted_value,
                                      !.updated_at = now]
                       ELSE x : x \in secrets},
          nextId |-> nextId]
    ELSE [status |-> 201,
          secrets |-> secrets \cup
              {[id |-> nextId, project_id |-> c.project_id, key |-> c.key,
                encrypted_value |-> c.encrypted_value,
                created_at |-> now, updated_at |-> now]},
          nextId |-> nextId + 1]

\* Lines 34-48 at the time now: the UPDATE of the row found by the query
\* (StaleDataError, answered 500, when the row is gone), or the INSERT of a
\* new row (IntegrityError, answered 500, when uq_project_key is violated:
\* models.py:91-93).
create_secret_commit(c, now) ==
    IF c.existing # 0
    THEN [status |-> IF \E x \in secrets : x.id = c.existing THEN 201 ELSE 500,
          secrets |-> {IF x.id = c.existing
                       THEN [x EXCEPT !.encrypted_value = c.encrypted_value,
                                      !.updated_at = now]
                       ELSE x : x \in secrets},
          nextId |-> nextId]
    ELSE IF SecretByKey(c.project_id, c.key) # {}
    THEN [status |-> 500, secrets |-> secrets, nextId |-> nextId]
    ELSE [status |-> 201,
          secrets |-> secrets \cup
              {[id |-> nextId, project_id |-> c.project_id, key |-> c.key,
                encrypted_value |-> c.encrypted_value,
                created_at |-> now, updated_at |-> now]},
          nextId |-> nextId + 1]

\* get_secret_by_key, the dependency of delete_secret.
delete_secret_query(b, name, key) ==
    [op |-> IF get_secret_by_key(key, name, b) = 200 THEN "delete" ELSE "none",
     project_id |-> ProjectId(name), key |-> key, encrypted_value |-> None,
     existing |-> IF SecretByKey(ProjectId(name), key) = {} THEN 0
                  ELSE (CHOOSE x \in SecretByKey(ProjectId(name), key) : TRUE).id]

\* db.delete(secret); db.commit(): the DELETE of the row found by the query.
delete_secret_commit(c) ==
    [status |-> 204, secrets |-> {x \in secrets : x.id # c.existing}, nextId |-> nextId]

\* A request arrives and runs up to its commit.
PutQuery ==
    \E slot \in 1..MaxCalls, b \in LogBearers, name \in ProjectNames,
       k \in SecretKeys, v \in SecretValues :
        /\ calls[slot] = NoCall
        /\ create_secret_query(b, name, k, v).op = "put"
        /\ calls' = [calls EXCEPT ![slot] = create_secret_query(b, name, k, v)]
        /\ UNCHANGED <<db, logvars, client, clock>>
DeleteQuery ==
    \E slot \in 1..MaxCalls, b \in LogBearers, name \in ProjectNames, k \in SecretKeys :
        /\ calls[slot] = NoCall
        /\ delete_secret_query(b, name, k).op = "delete"
        /\ calls' = [calls EXCEPT ![slot] = delete_secret_query(b, name, k)]
        /\ UNCHANGED <<db, logvars, client, clock>>

\* A request commits, at a time later than every commit before it.
PutCommit ==
    \E slot \in 1..MaxCalls :
        LET r == create_secret_commit(calls[slot], clock + 1) IN
        /\ calls[slot].op = "put"
        /\ clock < MaxClock
        /\ r.nextId <= MaxIds + 1
        /\ secrets' = r.secrets
        /\ nextId' = r.nextId
        /\ clock' = clock + 1
        /\ calls' = [calls EXCEPT ![slot] = NoCall]
        /\ UNCHANGED <<projects, master_tokens, tokens, devices, logvars, client>>
DeleteCommit ==
    \E slot \in 1..MaxCalls :
        LET r == delete_secret_commit(calls[slot]) IN
        /\ calls[slot].op = "delete"
        /\ clock < MaxClock
        /\ secrets' = r.secrets
        /\ clock' = clock + 1
        /\ calls' = [calls EXCEPT ![slot] = NoCall]
        /\ UNCHANGED <<projects, master_tokens, tokens, devices, nextId, logvars, client>>

NextPut == CreateProject \/ PutQuery \/ PutCommit \/ DeleteQuery \/ DeleteCommit

SpecPut == Init /\ [][NextPut]_vars

\* ------------------------------------------------------------------ the vault
\* The secrets routes on a database with two projects and at most one stored
\* secret, sealed by this run of the server or by an earlier run that was
\* started with another MASTER_KEY.
VaultKeys == {"db_pass", "api_key"}
VaultProjects ==
    {[id |-> 2, name |-> "P", auto_approval_tag_pattern |-> NoPattern],
     [id |-> 3, name |-> "Q", auto_approval_tag_pattern |-> NoPattern]}
VaultTables ==
    {{}} \cup
    {{[id |-> 4, project_id |-> p.id, key |-> k, encrypted_value |-> e]} :
        p \in VaultProjects, k \in VaultKeys,
        e \in {encrypt_data(v) : v \in SecretValues}
               \cup {encrypt_data_other_key(v) : v \in SecretValues}}

InitVault ==
    /\ projects = VaultProjects
    /\ master_tokens = {InitMasterToken}
    /\ tokens = {}
    /\ secrets \in VaultTables
    /\ devices = {}
    /\ nextId = 5
    /\ handled = NotHandled
    /\ returned = JNone
    /\ pending = NoPending
    /\ activity = NoActivity
    /\ client = NoClient
    /\ calls = NoCalls
    /\ clock = 0

VaultPut ==
    \E b \in LogBearers, name \in ProjectNames, k \in VaultKeys, v \in SecretValues :
        Serve(create_secret(b, name, k, v))
VaultGet ==
    \E b \in LogBearers, name \in ProjectNames, k \in VaultKeys : Serve(get_secret(b, name, k))
VaultList == \E b \in LogBearers, name \in ProjectNames : Serve(list_secrets(b, name))
VaultDelete ==
    \E b \in LogBearers, name \in ProjectNames, k \in VaultKeys :
        Serve(delete_secret(b, name, k))

NextVault == VaultPut \/ VaultGet \/ VaultList \/ VaultDelete

SpecVault == InitVault /\ [][NextVault]_vars

\* ------------------------------------------------------------------ master credentials, requests interleaved
\* revoke_master_token and rotate_master_token served at the same time, each
\* in its own session and thread: the dependencies and the checks of the
\* handler read the table (query), the handler's commit writes it later.
\* What a request holds between the two: the id of the row it found.
revoke_master_token_query(b, token_id) ==
    [op |-> IF revoke_master_token(b, token_id).status = 204 THEN "revoke_master" ELSE "none",
     project_id |-> 0, key |-> "", encrypted_value |-> None, existing |-> token_id]

rotate_master_token_query(b, token_id) ==
    [op |-> IF rotate_master_token(b, token_id).status = 200 THEN "rotate_master" ELSE "none",
     project_id |-> 0, key |-> "", encrypted_value |-> None, existing |-> token_id]

\* db.delete(master_token); db.commit(): the DELETE of the row the query found.
revoke_master_token_commit(c) ==
    [master_tokens |-> {m \in master_tokens : m.id # c.existing}, nextId |-> nextId]

\* db.delete(old_token); db.add(new_token); commit_and_refresh(...)
rotate_master_token_commit(c) ==
    [master_tokens |-> {m \in master_tokens : m.id # c.existing} \cup
        {[id |-> nextId, name |-> mask_token(generate_token(nextId)),
          token_hash |-> hash_token(generate_token(nextId)), is_init_token |-> 0]},
     nextId |-> nextId + 1]

MasterCreate ==
    /\ \E b \in Bearers : Commit(create_master_token(b))
    /\ master_tokens' # master_tokens
    /\ UNCHANGED <<logvars, procvars>>

RevokeMasterQuery ==
    \E slot \in 1..MaxCalls, b \in Bearers, id \in MasterIds :
        /\ calls[slot] = NoCall
        /\ revoke_master_token_query(b, id).op = "revoke_master"
        /\ calls' = [calls EXCEPT ![slot] = revoke_master_token_query(b, id)]
        /\ UNCHANGED <<db, logvars, client, clock>>

RotateMasterQuery ==
    \E slot \in 1..MaxCalls, b \in Bearers, id \in MasterIds :
        /\ calls[slot] = NoCall
        /\ rotate_master_token_query(b, id).op = "rotate_master"
        /\ calls' = [calls EXCEPT ![slot] = rotate_master_token_query(b, id)]
        /\ UNCHANGED <<db, logvars, client, clock>>

RevokeMasterCommit ==
    \E slot \in 1..MaxCalls :
        /\ calls[slot].op = "revoke_master"
        /\ master_tokens' = revoke_master_token_commit(calls[slot]).master_tokens
        /\ calls' = [calls EXCEPT ![slot] = NoCall]
        /\ UNCHANGED <<projects, tokens, secrets, devices, nextId, logvars, client, clock>>

RotateMasterCommit ==
    \E slot \in 1..MaxCalls :
        LET r == rotate_master_token_commit(calls[slot]) IN
        /\ calls[slot].op = "rotate_master"
        /\ r.nextId <= MaxIds + 1
        /\ master_tokens' = r.master_tokens
        /\ nextId' = r.nextId
        /\ calls' = [calls EXCEPT ![slot] = NoCall]
        /\ UNCHANGED <<projects, tokens, secrets, devices, logvars, client, clock>>

NextMasters ==
    \/ MasterCreate
    \/ RevokeMasterQuery \/ RevokeMasterCommit
    \/ RotateMasterQuery \/ RotateMasterCommit

SpecMasters == Init /\ [][NextMasters]_vars

\* ------------------------------------------------------------------ devices written by this server
\* The device routes on a database whose rows are as register_device and
\* authorize_device write them: pending, or authorized with both stamps.
WrittenRows(id, d) == {x \in StoredRows(id, d) : x.status # "rejected"}

WrittenTables ==
    {r1 \cup r2 :
        r1 \in {{}} \cup {{x} : x \in WrittenRows(4, Txt("d1d1d1d1d1d1d1d1d1d1d1d1d1d1d1d1"))},
        r2 \in {{}} \cup {{x} : x \in WrittenRows(5, Txt("d2d2d2d2d2d2d2d2d2d2d2d2d2d2d2d2"))}}

InitWritten ==
    /\ projects = {StoredProject}
    /\ master_tokens = {InitMasterToken}
    /\ tokens = {StoredToken}
    /\ secrets = {}
    /\ devices \in WrittenTables
    /\ nextId = 6
    /\ handled = NotHandled
    /\ returned = JNone
    /\ pending = NoPending
    /\ activity = NoActivity
    /\ client = NoClient
    /\ calls = NoCalls
    /\ clock = 0

SpecWritten == InitWritten /\ [][NextDevices]_vars

\* ================================================================== claims
\* The rows a bearer matches: a master credential, a project credential, or
\* an authorized device whose token it is.
StoredAsMaster(b) == MasterByHash(hash_token(b)) # {}
StoredAsProject(b, project_id) ==
    \E t \in TokenByHash(hash_token(b)) : t.project_id = project_id
StoredAsDevice(b, project_id) ==
    \E d \in AuthorizedDeviceByToken(b) : d.project_id = project_id
NotStored(b) ==
    /\ ~StoredAsMaster(b)
    /\ TokenByHash(hash_token(b)) = {}
    /\ AuthorizedDeviceByToken(b) = {}

\* The outcome r leaves the secrets, project credentials and devices as
\* they are .
NoEffect(r) ==
    /\ r.secrets = secrets
    /\ r.tokens = tokens
    /\ r.devices = devices
    /\ r.projects = projects

\* The outcomes of the project-scoped operations on project name with bearer b.
GuardedOutcomes(b, name) ==
    {create_secret(b, name, k, v) : k \in SecretKeys, v \in SecretValues}
    \cup {get_secret(b, name, k) : k \in SecretKeys}
    \cup {delete_secret(b, name, k) : k \in SecretKeys}
    \cup {list_secrets(b, name), list_tokens(b, name), create_token(b, name),
          list_devices(b, name)}
    \cup {authorize_device(b, name, id) : id \in DeviceRowIds}
    \cup {reject_device(b, name, id) : id \in DeviceRowIds}
    \cup {delete_device(b, name, id) : id \in DeviceRowIds}

\* C1: a bearer that is no stored master credential, no stored project
\* credential and not the token of an authorized device is refused with 401
\* by get_auth_context and, for every project, by
\* verify_project_access_by_id, and no project-scoped operation it is sent
\* with takes effect.  (Violated: a 64-hex bearer passes
\* verify_project_access_by_id.)
C1_UnknownBearerFails ==
    \A b \in Bearers : NotStored(b) =>
        /\ get_auth_context(b).status = 401
        /\ \A p \in projects :
              /\ verify_project_access_by_id(p.id, b) = 401
              /\ \A r \in GuardedOutcomes(b, p.name) : r.status = 401 /\ NoEffect(r)

\* An authorized device row for fingerprint d bound to project_id.
AuthorizedRow(d, project_id) ==
    [id |-> 0, project_id |-> project_id, device_id_hash |-> hash_token(d),
     status |-> "authorized", device_info |-> [tags |-> <<>>],
     authorized_at |-> "set", authorized_by |-> <<"master_token", 1>>,
     rejected_at |-> None, rejected_by |-> None]

\* C2: for distinct projects P and Q, a project credential bound to Q and the
\* token of an authorized device bound to Q are denied with 403 by
\* verify_project_access_by_id on P, and every project-scoped operation on P
\* sent with them ends 403 and leaves P's secrets, credentials and devices
\* as they are.  The device half is evaluated on every devices table that
\* holds one authorized row of Q, as well as on the stored table.
C2_CrossProjectDenied ==
    \A p \in projects : \A q \in projects \ {p} :
        /\ \A b \in Bearers : StoredAsProject(b, q.id) =>
              /\ verify_project_access_by_id(p.id, b) = 403
              /\ \A r \in GuardedOutcomes(b, p.name) :
                    r.status = 403 /\ NoEffect(r)
        /\ \A b \in Bearers : StoredAsDevice(b, q.id) =>
              /\ verify_project_access_by_id(p.id, b) = 403
              /\ \A r \in GuardedOutcomes(b, p.name) : r.status = 403 /\ NoEffect(r)
        /\ \A d \in DeviceIds :
              verify_project_access_by_id_on({AuthorizedRow(d, q.id)}, p.id,
                                             hash_token(d)) = 403

\* C2 witness: two projects, a credential bound to one of them, and a write
\* to the other one sent with it is refused with 403.
C2_Witness ==
    \E p \in projects : \E q \in projects \ {p} : \E b \in Bearers :
        /\ StoredAsProject(b, q.id)
        /\ ~StoredAsMaster(b)
        /\ create_secret(b, p.name, "db_pass", "hunter2").status = 403
        /\ \E s \in secrets : s.project_id = p.id

\* C3: a request bearing SHA256(device_id) is accepted for a project only
\* while an authorized device row with that digest, bound to that project, is
\* stored: never while the row is absent or pending.  (Violated: with no
\* device row at all the digest is accepted for every project.)
C3_DeviceTokenOnlyWhileAuthorized ==
    \A d \in DeviceIds : \A p \in projects :
        verify_project_access_by_id(p.id, hash_token(d)) = 200
            => StoredAsDevice(hash_token(d), p.id)

\* The bearer classifies as master, or as scoped to the project.
Entitled(b, project_id) ==
    StoredAsMaster(b) \/ StoredAsProject(b, project_id) \/ StoredAsDevice(b, project_id)

\* C4: a state-changing operation changes stored state only when its bearer
\* classifies as master or as scoped to the affected project.  Stated here
\* for the bearers that are no 64-hex strings (those are the subject of C1)
\* and for the operations that remove rows.  (Violated: revoke_token deletes
\* a project credential whatever the bearer.)
C4_AuthenticationGatesChanges ==
    \A b \in Bearers : ~IsHex64(b) =>
        /\ \A t \in tokens :
              revoke_token(b, t.id).tokens # tokens => Entitled(b, t.project_id)
        /\ \A p \in projects :
              /\ delete_project(b, p.name).projects # projects => StoredAsMaster(b)
              /\ \A k \in SecretKeys :
                    delete_secret(b, p.name, k).secrets # secrets => Entitled(b, p.id)
              /\ \A id \in DeviceRowIds :
                    reject_device(b, p.name, id).devices # devices => Entitled(b, p.id)
        /\ \A m \in master_tokens :
              revoke_master_token(b, m.id).master_tokens # master_tokens
                  => StoredAsMaster(b)

\* C9: registering the same (project, device_id) twice is served 201 both
\* times with the same device, leaves exactly one row for the digest of the
\* device_id, and the second call changes nothing even with other tags.
\* (Violated: the first call ends 500 and stores no row.)
C9_RegisterTwiceOneRow ==
    \A p \in projects : \A d \in DeviceIds : \A t1 \in TagLists : \A t2 \in TagLists :
        LET first == register_device(p.name, d, t1)
            second == register_device_on(first.devices, p.name, d, t2)
            rows(r) == {x \in r.devices : x.device_id_hash = hash_token(d)}
        IN  (\A x \in devices : x.device_id_hash # hash_token(d)) =>
              /\ first.status = 201
              /\ second.status = 201
              /\ Cardinality(rows(first)) = 1
              /\ second.devices = first.devices

\* The pattern tokens of a project's auto-approval pattern: the members of a
\* JSON list, or the comma-separated parts.
PatternTokens(text) ==
    IF text = PatternJson THEN {<<"T", "e", "s", "t">>}
    ELSE IF text = PatternCsv THEN {<<"d", "e", "v">>, <<"c", "i">>}
    ELSE {}

\* C10: a newly registered device is created authorized, stamped and
\* attributed to "auto_approval_policy" exactly when some supplied tag
\* contains some pattern token as a case-insensitive substring, and is
\* created pending, unstamped, otherwise.  (Violated: no device is created.)
C10_AutoApprovalIffPatternMatches ==
    \A p \in projects : \A d \in DeviceIds : \A tags \in TagLists :
        LET r == register_device(p.name, d, tags)
            rows == {x \in r.devices : x.device_id_hash = hash_token(d)}
            match == \E i \in 1..Len(tags) :
                        \E tok \in PatternTokens(p.auto_approval_tag_pattern) :
                            contains(lower(tags[i]), lower(tok))
        IN  (\A x \in devices : x.device_id_hash # hash_token(d)) =>
              /\ rows # {}
              /\ \A x \in rows :
                    IF match
                    THEN /\ x.status = "authorized"
                         /\ x.authorized_at = "set"
                         /\ x.authorized_by = <<"auto_approval_policy", 0>>
                    ELSE /\ x.status = "pending"
                         /\ x.authorized_at = None
                         /\ x.authorized_by = <<None, 0>>

\* ------------------------------------------------------------------ audit log
\* The strings of a JSON document.
RECURSIVE Texts(_)
Texts(data) ==
    IF data.t = "dict" THEN UNION {Texts(data.v[k]) : k \in DOMAIN data.v}
    ELSE IF data.t = "list" THEN UNION {Texts(data.v[i]) : i \in 1..Len(data.v)}
    ELSE IF data.t = "str" THEN {data.v}
    ELSE {}

\* x is the plaintext of a stored secret, or the raw value of a stored
\* master or project credential (alone or after "Bearer ").
IsStoredPlaintext(x) ==
    \/ get_secret_info(x)
    \/ MasterByHash(hash_token(Unbearer(x))) # {}
    \/ TokenByHash(hash_token(Unbearer(x))) # {}

\* C5: no persisted audit-log entry (Activity.request_data,
\* Activity.response_data) contains the plaintext of a stored secret or the
\* raw value of a stored master or project credential, whatever the key
\* name or the length of the field.  (Violated: a secret value under a key
\* other than "value" is not masked in the request, and not found in the
\* response when it has 10 characters or fewer.)
C5_NoPlaintextInAuditLog ==
    activity.written =>
        \A x \in Texts(activity.request_data) \cup Texts(activity.response_data) :
            ~IsStoredPlaintext(x)

\* The value a path denotes, array indices resolved.
RECURSIVE ValueAt(_, _)
ValueAt(current, path_parts) ==
    LET part == Head(path_parts)
        RECURSIVE Elem(_, _)
        Elem(x, idx) ==
            IF idx = <<>> THEN x
            ELSE IF x.t = "list" /\ Head(idx) < Len(x.v) THEN Elem(x.v[Head(idx) + 1], Tail(idx))
            ELSE Missing
    IN  IF path_parts = <<>> THEN current
        ELSE IF ~Has(current, part.key) THEN Missing
        ELSE ValueAt(Elem(current.v[part.key], part.idx), Tail(path_parts))

IsPlaintext(x) == x.t = "str" /\ CountStars(x.v) = 0

\* C6: a response annotated with a confidential field path (nested objects
\* and array indices included) whose value is a plaintext string is
\* reported exposed by both detections; after redact_exposed_values with
\* the annotations the detections report no exposure, and redacting again
\* changes nothing.  (Violated: the detections look "secrets[0]" up as a
\* dict key, so an annotated list element is never reported.)
C6_DetectRedactRescan ==
    LET response_data == pending.response
        fields == response_data.confidential_fields
        redacted == [response_data EXCEPT
                        !.doc = redact_exposed_values(response_data.doc, fields).result]
    IN  (pending.live /\ fields # <<>>) =>
            /\ (\E i \in 1..Len(fields) :
                    IsPlaintext(ValueAt(response_data.doc, fields[i].path)))
               => /\ check_exposure_from_metadata(response_data).has_exposure
                  /\ exposed_by_metadata(response_data)
            /\ ~check_exposure_from_metadata(redacted).has_exposure
            /\ ~exposed_by_metadata(redacted)
            /\ redact_exposed_values(redacted.doc, fields).result = redacted.doc

\* A stored secret value occurs in the request body and in no field of the
\* response.
SecretInRequestOnly ==
    /\ pending.live
    /\ \E x \in Texts(pending.request_data.v["body"]) : get_secret_info(x)
    /\ \A x \in Texts(pending.response.doc) : ~get_secret_info(x)

\* The response holds no raw value of a credential.
NoCredentialInResponse ==
    \A x \in Texts(pending.response.doc) : ~get_token_info(x)

NotFlagged ==
    /\ ~check_for_exposed_data(pending.request_data, pending.response.doc).has_exposure
    /\ ~log_activity_sync_safe(pending.request_data, pending.response)
            .exposed_confidential_data

\* C7 as stated: whenever a stored secret value occurs in the request body
\* but in no field of the response, check_for_exposed_data reports no
\* exposure and the entry's exposed_confidential_data flag is false.
\* (Violated: the response of create_token carries the raw token.)
C7_RequestOnlyNeverFlagged == SecretInRequestOnly => NotFlagged

\* C7 amended: whenever a stored secret value occurs in the request body
\* and the response holds neither a stored secret value nor the raw value
\* of a credential, check_for_exposed_data reports no exposure and the
\* entry's exposed_confidential_data flag is false.
C7_RequestFindingsAloneNeverFlag ==
    (SecretInRequestOnly /\ NoCredentialInResponse) => NotFlagged

\* C7 witness: a create_secret request whose value is stored is waiting to
\* be logged; the scan has a finding, in the request.
C7_Witness ==
    /\ SecretInRequestOnly
    /\ NoCredentialInResponse
    /\ handled.status = 201
    /\ check_for_exposed_data(pending.request_data, pending.response.doc).findings # <<>>

\* The field lists redact_exposed_values is called with: the annotations of
\* the response, and single fields of the body.
RedactCalls ==
    {pending.response.confidential_fields}
    \cup {<<[path |-> <<Part("body"), Part(k)>>, type |-> "secret"]>> :
            k \in {"value", "token", "key"}}

Permitted(b, project_id) == StoredAsMaster(b) \/ StoredAsProject(b, project_id)

\* C11: registering a well-formed device_id in an existing project that has
\* no auto-approval pattern is served 201 and stores a pending row for its
\* digest; authorizing a stored pending row with a master credential or a
\* credential of its project leaves it authorized, stamped, attributed to
\* master_token:<id> or project_token:<id>, with the rejection stamps
\* cleared, and the status read then finds it authorized.  (Violated: the
\* registration ends 500 and stores no row.)
C11_RegisterPendingThenAuthorize ==
    \A p \in projects : p.auto_approval_tag_pattern = NoPattern =>
        /\ \A d \in DeviceIds : \A tags \in TagLists :
              LET r == register_device(p.name, d, tags)
                  rows == {x \in r.devices : x.device_id_hash = hash_token(d)}
              IN  (\A x \in devices : x.device_id_hash # hash_token(d)) =>
                    /\ r.status = 201
                    /\ rows # {}
                    /\ \A x \in rows : x.status = "pending" /\ x.project_id = p.id
        /\ \A x \in devices : \A b \in Bearers :
              (x.project_id = p.id /\ x.status = "pending" /\ Permitted(b, p.id)) =>
                  LET r == authorize_device(b, p.name, x.id)
                  IN  /\ r.status = 200
                      /\ \E y \in r.devices :
                            /\ y.id = x.id
                            /\ y.status = "authorized"
                            /\ y.authorized_at = "set"
                            /\ y.authorized_by[1] \in {"master_token", "project_token"}
                            /\ y.authorized_by[1] = "master_token" <=> StoredAsMaster(b)
                            /\ y.rejected_at = None
                            /\ y.rejected_by = None
                            /\ y = [x EXCEPT !.status = y.status,
                                             !.authorized_at = y.authorized_at,
                                             !.authorized_by = y.authorized_by,
                                             !.rejected_at = None,
                                             !.rejected_by = None]

\* C12: authorize on a device that is already authorized is served 200 and
\* changes nothing, whichever permitted credential calls: the row keeps its
\* status, authorized_at, authorized_by, rejected_at and rejected_by, and no
\* other row of the database changes.
C12_AuthorizeAuthorizedIsNoOp ==
    \A x \in devices : \A p \in projects : \A b \in Bearers :
        (x.project_id = p.id /\ x.status = "authorized") =>
            LET r == authorize_device(b, p.name, x.id)
            IN  /\ Permitted(b, p.id) => r.status = 200
                /\ r.status = 200 => x \in r.devices
                /\ NoEffect(r)
                /\ r.master_tokens = master_tokens

\* A device authorized by the project credential is stored, and the master
\* credential calls authorize on it.
C12_Witness ==
    \E x \in devices :
        /\ x.status = "authorized"
        /\ x.authorized_by = <<"project_token", StoredToken.id>>
        /\ Permitted(MASTER_TOKEN, x.project_id)
        /\ authorize_device(MASTER_TOKEN, "P", x.id).status = 200

\* C13: reject on a stored device, pending or authorized, by a permitted
\* credential is served 204 and removes the row: the status read no longer
\* finds it, no row of the table is the device, and its device token is no
\* longer accepted for the project; reject on an absent device is served 404
\* and changes nothing.  (Violated: with the row gone the device token, a
\* 64-hex string, is still accepted.)
C13_RejectRemovesDevice ==
    \A p \in projects : \A b \in Bearers :
        /\ \A x \in devices :
              (x.project_id = p.id /\ x.status \in {"pending", "authorized"}
                    /\ Permitted(b, p.id)) =>
                  LET r == reject_device(b, p.name, x.id)
                  IN  /\ r.status = 204
                      /\ \A y \in r.devices : y.id # x.id /\ y.device_id_hash # x.device_id_hash
                      /\ r.devices = devices \ {x}
                      /\ verify_project_access_by_id_on(r.devices, p.id, x.device_id_hash) # 200
        /\ \A id \in 0..MaxIds :
              (Permitted(b, p.id) /\ DeviceById(id, p.id) = {}) =>
                  /\ reject_device(b, p.name, id).status = 404
                  /\ NoEffect(reject_device(b, p.name, id))

\* ------------------------------------------------------------------ registration protocol
\* C14: in the poll loop the client keeps polling only while every poll has
\* observed pending (or got no answer); the protocol that ended on a poll
\* observing authorized returned success with wait_time_seconds equal to the
\* number of polls made times the poll interval; the one that ended on a
\* poll observing rejected or not-found returned failure; and it never
\* returns success without having observed authorized.
C14_PollLoopOutcome ==
    /\ client.pc = "polling" =>
          /\ client.observed \in {"pending", "error"} \/ client.polls = 0
          /\ client.elapsed_time = client.polls * client.poll_interval
    /\ client.pc = "done" =>
          /\ client.result.success => client.observed = "authorized"
          /\ (client.polls > 0 /\ client.observed = "authorized") =>
                /\ client.result.success
                /\ client.result.wait_time_seconds = client.polls * client.poll_interval
          /\ (client.polls > 0 /\ client.observed \in {"rejected", "404"}) =>
                /\ ~client.result.success
                /\ client.result.status = "rejected"
                /\ ~client.reject_called

\* The protocol returned success on its second poll, two seconds apart.
C14_Witness ==
    /\ client.pc = "done"
    /\ client.result.success
    /\ client.polls = 2
    /\ client.poll_interval = 2
    /\ client.result.wait_time_seconds = 4

\* The step in which the protocol returns after its loop ran past the
\* maximum wait without a final status.
TimedOutStep ==
    /\ client.pc = "polling"
    /\ client.elapsed_time >= MaxWait
    /\ client'.pc = "done"

C16_TimeoutWithoutCredentialReportsPending ==
    [][(/\ TimedOutStep
        /\ client.auth_token = NoBearer
        /\ \E x \in DeviceById(client.device_id_value, StoredProject.id) :
              x.status = "pending")
       => /\ ~client'.reject_called
          /\ devices' = devices
          /\ ~client'.result.success
          /\ client'.result.status = "pending"
          /\ client'.result.note = "manual action"]_vars

\* ------------------------------------------------------------------ concurrent registration
\* C17: two concurrent registrations of one device_id in one project, in
\* either order of their lookups and inserts (the second looks the device up
\* after the first committed, or before), are both served 200 or 201 and
\* leave exactly one row for the digest of the device_id.  (Violated: both
\* end 500 and no row is stored.)
C17_ConcurrentRegistrationsOneRow ==
    \A p \in projects : \A d \in DeviceIds : \A t1 \in TagLists : \A t2 \in TagLists :
        LET first == register_device_at(devices, devices, p.name, d, t1)
            after == register_device_at(first.devices, first.devices, p.name, d, t2)
            racing == register_device_at(devices, first.devices, p.name, d, t2)
            rows(r) == {x \in r.devices : x.device_id_hash = hash_token(d)}
        IN  (\A x \in devices : x.device_id_hash # hash_token(d)) =>
              /\ first.status \in {200, 201}
              /\ \A second \in {after, racing} :
                    /\ second.status \in {200, 201}
                    /\ Cardinality(rows(second)) = 1
                    /\ rows(second) = rows(first)

\* ------------------------------------------------------------------ audit log of device requests
\* C18: in the order of events of one reject request the activity record of
\* the reject precedes the removal of the device row: the step that removes
\* the row leaves no record of its request still to be written.  (Violated:
\* the handler deletes and commits, and the logging thread of the request is
\* started after the handler returned.)
C18_RejectLoggedBeforeDeletion ==
    [][(\E x \in devices : x \notin devices')
       => (~pending'.live /\ activity'.written)]_vars

\* ------------------------------------------------------------------ failures of the audit logging
\* The caller gets, and the database keeps, what they get and keep when the
\* logging does not fail.
SameOutcome(fault, r) == served(fault, r) = served("none", r)

\* C19: wherever the audit logging of a request fails, the caller receives
\* the status and body of the failure-free run and the state change of the
\* handler is committed; and the response is returned while the log write
\* is still to run.  (Violated: a malformed X-MCP-Arguments header makes
\* dispatch raise before the handler runs.)
C19_LoggingFailureKeepsOutcome ==
    /\ pending.live => returned = handled.body
    /\ \A fault \in Faults : \A b \in LogBearers :
          /\ SameOutcome(fault, create_project(b, LogProject))
          /\ SameOutcome(fault, get_secret(b, LogProject, "db_pass"))
          /\ SameOutcome(fault, delete_secret(b, LogProject, "db_pass"))
          /\ \A v \in SecretValues :
                SameOutcome(fault, create_secret(b, LogProject, "db_pass", v))

\* ------------------------------------------------------------------ concurrent requests on secrets
\* At most one Secret row per (project_id, key).
UniqueKeys ==
    \A x \in secrets : \A y \in secrets :
        (x.project_id = y.project_id /\ x.key = y.key) => x = y

\* The step in which the put of slot commits.
PutCommits(slot) == calls[slot].op = "put" /\ calls'[slot] = NoCall

\* A put whose key is stored when it commits adds no row; when the row it
\* queried is still stored, that row, with its id and created_at, gets the
\* ciphertext of the put and a later updated_at, and no other row changes.
PutOverwrites ==
    \A slot \in 1..MaxCalls : PutCommits(slot) =>
        LET c == calls[slot] IN
        /\ SecretByKey(c.project_id, c.key) # {} =>
              {y.id : y \in secrets'} = {x.id : x \in secrets}
        /\ \A x \in secrets : x.id = c.existing =>
              \E y \in secrets' :
                  /\ y = [x EXCEPT !.encrypted_value = c.encrypted_value,
                                   !.updated_at = y.updated_at]
                  /\ y.updated_at > x.updated_at
                  /\ secrets' \ {y} = secrets \ {x}

SameAnswer(r1, r2) == r1.status = r2.status /\ (r1.status = 200 => r1.body = r2.body)

\* The answers of get for every project and key other than (project_id, key)
\* are on the secrets table secs what they are on the stored one.
OthersAsBefore(secs, project_id, key) ==
    \A b \in LogBearers : \A q \in projects : \A k \in VaultKeys :
        <<q.id, k>> # <<project_id, key>> =>
            SameAnswer(get_secret_on(secs, b, q.name, k), get_secret(b, q.name, k))

C22_DeleteAndNotFound ==
    \A b \in LogBearers : \A p \in projects : \A k \in VaultKeys :
        get_project_with_access(p.name, b) = 200 =>
            LET r == delete_secret(b, p.name, k) IN
            IF SecretByKey(p.id, k) # {}
            THEN /\ r.status = 204
                 /\ r.secrets = secrets \ SecretByKey(p.id, k)
                 /\ get_secret_on(r.secrets, b, p.name, k).status = 404
                 /\ \A x \in secrets : x.project_id # p.id => x \in r.secrets
            ELSE /\ r.status = 404
                 /\ get_secret(b, p.name, k).status = 404
                 /\ r.secrets = secrets
                 /\ get_secret(b, p.name, k).secrets = secrets
                 /\ \A x \in secrets : (x.key = k /\ x.project_id # p.id) => x \in r.secrets

\* A secret that a request put was deleted again; the secret that is left
\* is stored in one project, and get and delete of its key in the other
\* project end 404.
C22_Witness ==
    \E x \in secrets : \E p \in projects :
        /\ nextId = 6
        /\ secrets = {x}
        /\ x.id = 4
        /\ x.project_id # p.id
        /\ delete_secret(MASTER_TOKEN, p.name, x.key).status = 404
        /\ get_secret(MASTER_TOKEN, p.name, x.key).status = 404

\* The secrets tables that hold the rows of secs with any ciphertexts: the
\* same ids, projects and keys, and any values, sealed under any key.
Revalued(secs) ==
    LET Ciphertexts == {encrypt_data(v) : v \in SecretValues}
                       \cup {encrypt_data_other_key(v) : v \in SecretValues}
    IN  {{[x EXCEPT !.encrypted_value = f[x]] : x \in secs} : f \in [secs -> Ciphertexts]}

\* C23: list_secrets of project P, served to a caller with access, returns
\* one entry per secret stored for P, carrying its key, and for any two
\* states of the vault that hold the same keys with other values it returns
\* the same status and the same body: nothing in it depends on a value.
C23_ListKeysOnly ==
    \A b \in LogBearers : \A p \in projects :
        LET r == list_secrets(b, p.name)
            rows == {x \in secrets : x.project_id = p.id}
        IN  /\ get_project_with_access(p.name, b) = 200 =>
                  /\ r.status = 200
                  /\ Len(r.body.v) = Cardinality(rows)
                  /\ {r.body.v[i] : i \in 1..Len(r.body.v)}
                        = {Dict([key |-> Str(Txt(x.key))]) : x \in rows}
            /\ \A secs \in Revalued(secrets) :
                  /\ list_secrets_on(secs, b, p.name).status = r.status
                  /\ list_secrets_on(secs, b, p.name).body = r.body

\* A project holds two secrets of different values, and the list served to
\* the master credential has two entries.
C23_Witness ==
    \E x \in secrets : \E y \in secrets : \E p \in projects :
        /\ x.project_id = p.id
        /\ y.project_id = p.id
        /\ x.key # y.key
        /\ decrypt_data(x.encrypted_value) = "hunter2"
        /\ decrypt_data(y.encrypted_value) = "correct-horse-battery"
        /\ list_secrets(MASTER_TOKEN, p.name).status = 200
        /\ Len(list_secrets(MASTER_TOKEN, p.name).body.v) = 2

\* ------------------------------------------------------------------ decryption failures
\* A get of the row x by a caller with access ends with a server error and
\* returns no value.
GetFails(x) ==
    \A b \in LogBearers : \A p \in projects :
        (p.id = x.project_id /\ get_project_with_access(p.name, b) = 200) =>
            /\ get_secret(b, p.name, x.key).status = 500
            /\ ~Has(get_secret(b, p.name, x.key).body, "value")

\* C24: for a stored ciphertext that cannot be decrypted, get ends with an
\* error and returns no plaintext, and the scan of the exposure detector
\* does not pass the row over while it compares a value with the stored
\* secrets.  (Violated: _get_secret_info catches the exception of
\* decrypt_data and continues with the next row.)
C24_DecryptionFailureIsFatal ==
    \A x \in secrets : decrypt_data(x.encrypted_value) = InvalidToken =>
        /\ GetFails(x)
        /\ \A v \in SecretValues : x \notin get_secret_info_passed_over(Txt(v))

\* ------------------------------------------------------------------ what the tables store
\* The texts of the rows of the entity tables.
StoredTexts ==
    {m.name : m \in master_tokens} \cup {m.token_hash : m \in master_tokens}
    \cup {t.name : t \in tokens} \cup {t.token_hash : t \in tokens}
    \cup {d.device_id_hash : d \in devices}
    \cup {Txt(x.key) : x \in secrets} \cup {Txt(p.name) : p \in projects}

\* x is the raw value of a stored credential, the plaintext of a stored
\* secret, or the device_id of a stored device.
IsRaw(x) == IsStoredPlaintext(x) \/ \E d \in devices : d.device_id_hash = hash_token(x)

\* A credential row holds the digest of its token and the masked token.
HashedAndMasked(row) ==
    /\ row.token_hash.h = 1
    /\ row.token_hash.m = ""
    /\ row.name.m \in {"bullets", "allbullets"}
    /\ hash_token([row.name EXCEPT !.m = ""]) = row.token_hash

\* C25: in every reachable state no text of a row of the entity tables is a
\* raw credential, a raw device_id or the plaintext of a secret: credential
\* rows hold the digest and the masked name of their token, device rows the
\* digest of their device_id, secret rows a ciphertext; the call that creates
\* or rotates a credential returns the raw token of the row it stored, and
\* no listing of credentials or secrets returns a raw value.
C25_NoRawValueStored ==
    /\ \A x \in StoredTexts : ~IsRaw(x)
    /\ \A row \in master_tokens \cup tokens : HashedAndMasked(row)
    /\ \A d \in devices : d.device_id_hash \in {hash_token(x) : x \in DeviceIds}
    /\ \A x \in secrets : x.encrypted_value \in {encrypt_data(v) : v \in SecretValues}
    /\ \A b \in Bearers :
          /\ \A x \in Texts(list_master_tokens(b).body) : ~IsRaw(x)
          /\ \A p \in projects :
                \A x \in Texts(list_tokens(b, p.name).body)
                          \cup Texts(list_secrets(b, p.name).body) : ~IsRaw(x)
          /\ \A p \in projects :
                LET r == create_token(b, p.name) IN
                r.status = 201 =>
                    \E t \in r.tokens \ tokens :
                        t.token_hash = hash_token(r.body.v["token"].v)
          /\ LET r == create_master_token(b) IN
             r.status = 201 =>
                 \E m \in r.master_tokens \ master_tokens :
                     m.token_hash = hash_token(r.body.v["token"].v)
          /\ \A m \in master_tokens :
                LET r == rotate_master_token(b, m.id) IN
                r.status = 200 =>
                    \E n \in r.master_tokens \ master_tokens :
                        n.token_hash = hash_token(r.body.v["token"].v)

\* A project credential, a secret and a device are stored, and the list of
\* the project's credentials is served to that credential.
C25_Witness ==
    /\ \E t \in tokens :
          /\ list_tokens(generate_token(t.id), "P").status = 200
          /\ Len(list_tokens(generate_token(t.id), "P").body.v) = 1
    /\ secrets # {}
    /\ devices # {}

\* ------------------------------------------------------------------ deleting a project
\* No row of the tables of owned entities refers to the project id.
OwnsNothing(project_id) ==
    /\ \A t \in tokens : t.project_id # project_id
    /\ \A x \in secrets : x.project_id # project_id
    /\ \A d \in devices : d.project_id # project_id

\* The bearer c is refused as unknown: with 401, by get_auth_context and by
\* verify_project_access_by_id for every project.
RejectedAsUnknown(c) ==
    /\ get_auth_context(c).status = 401
    /\ \A q \in projects : verify_project_access_by_id(q.id, c) = 401

\* The step removes the project p.
Deleted(p) == p \in projects /\ \A q \in projects' : q.id # p.id

\* A project created now owns nothing: its id is one no row refers to.
StartsEmpty ==
    \A b \in Bearers : \A name \in ProjectNames :
        LET r == create_project(b, name) IN
        r.status = 201 =>
            \A p \in r.projects \ projects :
                /\ \A t \in r.tokens : t.project_id # p.id
                /\ \A x \in r.secrets : x.project_id # p.id
                /\ \A d \in r.devices : d.project_id # p.id

\* C26: the step that deletes project P leaves no secret, project credential
\* or device of P, and every bearer that was a project credential of P or
\* the token of an authorized device of P is refused as unknown afterwards;
\* a project created under any name, the name of a deleted one included,
\* starts with no secrets, credentials or devices.  (Violated: the token of
\* the deleted device, a 64-hex string, still passes
\* verify_project_access_by_id for the other projects.)
C26_DeleteProjectCascades ==
    /\ []StartsEmpty
    /\ [][\A p \in projects : Deleted(p) =>
              /\ OwnsNothing(p.id)'
              /\ \A c \in Bearers :
                    (StoredAsProject(c, p.id) \/ StoredAsDevice(c, p.id)) =>
                        RejectedAsUnknown(c)']_vars

\* ------------------------------------------------------------------ classification
\* activity_logger.get_token_type for a request with a Bearer header: the
\* master table, then the project tokens, then (for a 64-hex bearer) the
\* authorized devices; "unknown" when nothing matches.
get_token_type(b) ==
    LET hh == hash_token(b) IN
    IF MasterByHash(hh) # {} THEN "master"
    ELSE IF TokenByHash(hh) # {} THEN "project"
    ELSE IF IsHex64(b) /\ AuthorizedDeviceByToken(b) # {} THEN "device"
    ELSE "unknown"

\* The tier get_auth_context assigns: the AuthContext it returns, or the 401.
Unknown == [tier |-> "unknown", project_id |-> 0]
TierOfContext(b) ==
    LET ctx == get_auth_context(b) IN
    IF ctx.status = 401 THEN Unknown
    ELSE IF ctx.is_master THEN [tier |-> "master", project_id |-> 0]
    ELSE IF ctx.token = 0 THEN [tier |-> "device", project_id |-> ctx.project_id]
    ELSE [tier |-> "project", project_id |-> ctx.project_id]

\* The tier in the order master hashes, authorized device hashes (64-hex
\* bearers only), project-credential hashes.
classify(b) ==
    IF StoredAsMaster(b) THEN [tier |-> "master", project_id |-> 0]
    ELSE IF IsHex64(b) /\ AuthorizedDeviceByToken(b) # {}
    THEN [tier |-> "device",
          project_id |-> (CHOOSE d \in AuthorizedDeviceByToken(b) : TRUE).project_id]
    ELSE IF TokenByHash(hash_token(b)) # {}
    THEN [tier |-> "project",
          project_id |-> (CHOOSE t \in TokenByHash(hash_token(b)) : TRUE).project_id]
    ELSE Unknown

\* What a credential of the tier c is granted on the project: master opens
\* every project, a project or device credential its own, unknown none.
Granted(c, project_id) ==
    IF c.tier = "master" THEN 200
    ELSE IF c.tier = "unknown" THEN 401
    ELSE IF c.project_id = project_id THEN 200 ELSE 403

\* The lookups of the three components find at most one row each.
OneRowPerHash(b) ==
    /\ Cardinality(MasterByHash(hash_token(b))) <= 1
    /\ Cardinality(TokenByHash(hash_token(b))) <= 1
    /\ Cardinality(AuthorizedDeviceByToken(b)) <= 1

\* C27: every bearer string has exactly one tier, Master, Project(id),
\* Device(id) or Unknown, found in the order master, authorized device (64-hex
\* only), project credential; get_auth_context, the audit logger's
\* get_token_type and verify_project_access_by_id (by what it grants on each
\* project) all assign that tier.  (Violated: verify_project_access_by_id
\* grants a 64-hex bearer of tier Unknown access to every project.)
C27_ClassificationAgrees ==
    \A b \in Bearers :
        /\ OneRowPerHash(b)
        /\ TierOfContext(b) = classify(b)
        /\ get_token_type(b) = classify(b).tier
        /\ \A p \in projects :
              verify_project_access_by_id(p.id, b) = Granted(classify(b), p.id)

\* ------------------------------------------------------------------ a fingerprint registered elsewhere
\* The digest of device_id is stored for a project other than the named one.
RegisteredElsewhere(name, device_id) ==
    /\ ProjectByName(name) # {}
    /\ \E d \in devices :
          d.device_id_hash = hash_token(device_id) /\ d.project_id # ProjectId(name)

\* C28: registering a device_id whose digest is stored for a different
\* project ends with an error and changes nothing: every device row stays as
\* it is (project, status and stamps) and no row is added.
C28_RegisteredElsewhereIsRefused ==
    \A name \in ProjectNames : \A device_id \in DeviceIds : \A tags \in TagLists :
        RegisteredElsewhere(name, device_id) =>
            LET r == register_device(name, device_id, tags) IN
            /\ r.status >= 400
            /\ r.devices = devices
            /\ r.nextId = nextId
            /\ NoEffect(r)

C28_Witness ==
    \E d \in devices : \E q \in projects : \E device_id \in DeviceIds :
        /\ d.project_id = StoredProject.id
        /\ q.id # d.project_id
        /\ q.auto_approval_tag_pattern # NoPattern
        /\ RegisteredElsewhere(q.name, device_id)
        /\ register_device(q.name, device_id, << <<"D", "e", "v", "-", "b", "o", "x">> >>).status >= 400

\* ------------------------------------------------------------------ who may decide on a device
\* The outcomes of authorize_device, reject_device and delete_device for the
\* device row d, addressed under its project's name by the bearer b.
DecisionOutcomes(b, d) ==
    LET name == (CHOOSE p \in projects : p.id = d.project_id).name IN
    {authorize_device(b, name, d.id), reject_device(b, name, d.id),
     delete_device(b, name, d.id)}

\* C29: authorize_device, reject_device and delete_device change the devices
\* table only for a bearer that is a master credential or a project
\* credential of the device's own project; a device token never suffices.
\* (Violated: the token of an authorized device of the project, and any other
\* 64-hex bearer, passes get_device_by_id, so it rejects and deletes devices;
\* an authorized device's token also authorizes a pending device.)
C29_DeviceDecisionsNeedMasterOrProject ==
    \A b \in Bearers : \A d \in devices :
        \A r \in DecisionOutcomes(b, d) :
            r.devices # devices =>
                StoredAsMaster(b) \/ StoredAsProject(b, d.project_id)

\* ------------------------------------------------------------------ the poll loop ends
\* ceil(max_wait_time / poll_interval)
PollLimit(poll_interval) == (MaxWait + poll_interval - 1) \div poll_interval

\* C30: the registration protocol returns a result whatever the server
\* answers (pending for ever, errors, no answer): it polls the device status
\* at most ceil(max_wait_time / poll_interval) times, calls reject at most
\* once, as its last step, and ends.
C30_PollLoopTerminates ==
    /\ [](client.polls <= PollLimit(client.poll_interval))
    /\ [][/\ client.reject_called => client' = client
          /\ client'.reject_called => client'.pc = "done"
          /\ client.pc = "done" => client' = client]_vars
    /\ <>(client.pc = "done")

C30_Witness ==
    /\ client.pc = "done"
    /\ client.poll_interval = 2
    /\ client.polls = PollLimit(client.poll_interval)
    /\ client.observed = "error"
    /\ client.reject_called
    /\ client.result.status \in {"pending", "timeout"}

\* ------------------------------------------------------------------ polling reads only
\* C31: an iteration of the poll loop before the timeout changes no stored
\* row: the device is as registration and the administrative actions made
\* it (pending if nobody decided), the credentials are untouched, and the
\* status request writes the last_used of no credential.
C31_PollingIsReadOnly ==
    [][(client.pc = "polling" /\ client.elapsed_time < MaxWait /\ client' # client) =>
          /\ devices' = devices
          /\ tokens' = tokens /\ master_tokens' = master_tokens
          /\ projects' = projects /\ secrets' = secrets
          /\ last_used_written(status_request(client).authorization) = {}]_vars

C31_Witness ==
    /\ client.pc = "polling"
    /\ client.polls >= 1
    /\ client.auth_token = MASTER_TOKEN
    /\ client.observed = "pending"
    /\ \E d \in devices : d.id = client.device_id_value /\ d.status = "pending"

\* ------------------------------------------------------------------ the format of device_id
\* Values of device_id a registration may carry: the fingerprints, one of
\* them in upper case between blanks, and strings that are no fingerprint.
PaddedDeviceId == Txt(" D1D1D1D1D1D1D1D1D1D1D1D1D1D1D1D1 ")
MalformedDeviceIds == {Txt("d1d1"), Txt("not-hex"), Txt(" ")}
DeviceIdInputs == DeviceIds \cup {PaddedDeviceId, NoDeviceId} \cup MalformedDeviceIds

\* device_data.device_id.lower().strip()
lower_strip(device_id) ==
    IF device_id = PaddedDeviceId THEN Txt("d1d1d1d1d1d1d1d1d1d1d1d1d1d1d1d1")
    ELSE IF device_id = Txt(" ") THEN Txt("")
    ELSE device_id

\* len(device_id) == 32 and all(c in '0123456789abcdef' for c in device_id)
IsHex32(device_id) == device_id.h = 0 /\ device_id.s \in Hex32Literals

\* C32: register_device accepts a device_id exactly when its trimmed,
\* lower-cased form is 32 hexadecimal characters: a missing or malformed one
\* is refused with 400 and no row is created; a well-formed one is stored,
\* and only as the SHA-256 digest of that form, in device_id_hash.
\* (Violated: every supplied device_id ends 500, stored or refused by
\* nothing that looks at its form.)
C32_DeviceIdFormat ==
    \A name \in ProjectNames : \A device_id \in DeviceIdInputs : \A tags \in TagLists :
        LET r == register_device(name, device_id, tags)
            digest == hash_token(lower_strip(device_id))
        IN  ProjectByName(name) # {} =>
                IF device_id = NoDeviceId \/ ~IsHex32(lower_strip(device_id))
                THEN r.status = 400 /\ r.devices = devices
                ELSE /\ r.status \in {200, 201}
                     /\ \E d \in r.devices : d.device_id_hash = digest /\ IsHex64(digest)
                     /\ \A d \in r.devices : d.device_id_hash # device_id

\* ------------------------------------------------------------------ revoking a master credential
\* The outcomes of the routes behind verify_master_token for the bearer c.
MasterOutcomes(c) ==
    {create_master_token(c), list_master_tokens(c)}
    \cup {revoke_master_token(c, id) : id \in MasterIds}
    \cup {rotate_master_token(c, id) : id \in MasterIds}
    \cup {create_project(c, name) : name \in ProjectNames}
    \cup {delete_project(c, name) : name \in ProjectNames}

\* The bearer c is turned away by everything that authenticates a request.
RejectedEverywhere(c) ==
    /\ verify_master_token(c) = 403
    /\ get_auth_context(c).status = 401
    /\ \A r \in MasterOutcomes(c) : r.status = 403 /\ NoEffect(r)
    /\ \A p \in projects :
          /\ verify_project_access_by_id(p.id, c) = 401
          /\ \A r \in GuardedOutcomes(c, p.name) : r.status = 401 /\ NoEffect(r)

\* revoke_master_token sent with a stored master credential b for the row m.
RevokesOwnOrOther ==
    \A b \in Bearers : \A m \in master_tokens :
        LET r == revoke_master_token(b, m.id) IN
        StoredAsMaster(b) =>
            IF m.token_hash = hash_token(b)
            THEN r.status = 400 /\ r.master_tokens = master_tokens /\ NoEffect(r)
            ELSE r.status = 204 /\ r.master_tokens = master_tokens \ {m} /\ NoEffect(r)

C34_MasterNeverEmpty ==
    /\ master_tokens # {}
    /\ \E b \in Bearers : verify_master_token(b) = 200

\* ------------------------------------------------------------------ the reject call and an authorize
\* The step in which the protocol makes its reject call.
CallsReject == ~client.reject_called /\ client'.reject_called

\* C35: the reject call the protocol makes on timeout removes the device only
\* while it is pending: if the row was authorized before the call, whatever
\* the polls saw, the call leaves the row stored and the protocol does not
\* report rejected.  (Violated: reject_device deletes the row whatever its
\* status.)
C35_TimeoutRejectsOnlyPending ==
    [][CallsReject =>
          \A d \in devices :
              (d.id = client.device_id_value /\ d.status = "authorized") =>
                  /\ d \in devices'
                  /\ client'.result.status # "rejected"]_vars

Kept(d) == \E e \in devices' : e.id = d.id

\* The step is a served reject_device or delete_device of the row d, or a
\* served delete_project of its project.
RemovedByDecision(d) ==
    \E b \in Bearers : \E name \in ProjectNames :
        \/ reject_device(b, name, d.id).status = 204
             /\ devices' = reject_device(b, name, d.id).devices
        \/ delete_device(b, name, d.id).status = 204
             /\ devices' = delete_device(b, name, d.id).devices
        \/ delete_project(b, name).status = 204
             /\ ProjectId(name) = d.project_id
             /\ devices' = delete_project(b, name).devices
             /\ projects' = delete_project(b, name).projects

\* update_project writes the project row alone.
UpdateKeepsDevices ==
    \A b \in Bearers : \A name \in ProjectNames : \A pt \in PatternInputs :
        LET r == update_project(b, name, pt) IN
        r.devices = devices /\ r.tokens = tokens /\ r.secrets = secrets

\* C37: an authorized device row stays authorized, with its project_id and
\* device_id_hash, in every step that keeps the row, and the row goes only
\* by reject_device, delete_device or the deletion of its project; changing
\* the auto-approval pattern of a project changes no device.
C37_AuthorizedStaysAuthorized ==
    /\ []UpdateKeepsDevices
    /\ [][\A d \in devices : d.status = "authorized" =>
              IF Kept(d)
              THEN \A e \in devices' : e.id = d.id =>
                      /\ e.status = "authorized"
                      /\ e.project_id = d.project_id
                      /\ e.device_id_hash = d.device_id_hash
              ELSE RemovedByDecision(d)]_vars

\* C37 witness: an authorized device in a project whose auto-approval pattern
\* was changed.
C37_Witness ==
    \E d \in devices : \E p \in projects :
        /\ d.status = "authorized"
        /\ d.project_id = p.id
        /\ p.auto_approval_tag_pattern = PatternCsv
        /\ tokens # {}

\* ------------------------------------------------------------------ registering again after a reject
\* No row stores the digest, and a registration of the device_id with that
\* digest, in any project, is served as a first one: 201 and a new row under
\* a new id, pending or authorized by the auto-approval policy.
RegistersAsNew(digest) ==
    /\ \A e \in devices : e.device_id_hash # digest
    /\ \A device_id \in DeviceIds : \A name \in ProjectNames : \A tags \in TagLists :
          (hash_token(device_id) = digest /\ ProjectByName(name) # {}) =>
              LET r == register_device(name, device_id, tags) IN
              /\ r.status = 201
              /\ \E e \in r.devices \ devices :
                    /\ e.id = nextId
                    /\ e.project_id = ProjectId(name)
                    /\ e.device_id_hash = digest
                    /\ e.status \in {"pending", "authorized"}
                    /\ e.rejected_at = None /\ e.rejected_by = None

\* C38: after the step that removes a device row (reject_device deletes it),
\* nothing of the device is stored, and registering its device_id again, in
\* the same or another project, creates a new row with a new id that is
\* pending or auto-approved.  (Violated: the registration ends 500 and stores
\* no row, as every registration does.)
C38_RejectLeavesNoTrace ==
    [][\A d \in devices : ~Kept(d) => RegistersAsNew(d.device_id_hash)']_vars
====
